---- MODULE Spec2Model ----
(***************************************************************************)
(* Model of zampy's regridding utilities (src/zampy/utils/regrid.py and    *)
(* src/zampy/utils/xesmf_regrid.py).                                       *)
(*                                                                         *)
(* Numbers.  Coordinates, resolutions and data values are floats in the    *)
(* code.  Here they are exact rationals <<n, d>> in lowest terms with      *)
(* d > 0, and the float not-a-number is <<0, 0>>.  Arithmetic and          *)
(* comparisons follow IEEE rules for NaN (NaN propagates, every comparison *)
(* with NaN is false); rounding error of finite floats is not modelled.    *)
(***************************************************************************)
EXTENDS Integers, Sequences, FiniteSets, TLC

VARIABLES
    pc,              \* "idle": the caller is between calls; "returned": a call has ended
    call,            \* the arguments of the last call
    out,             \* the outcome of the last call (a result or a raised error)
    trace,           \* the internal calls the last call made, in order
    modules,         \* sys.modules: the modules imported so far
    xesmf_installed, \* whether the optional xesmf library can be imported
    box,             \* the SpatialBounds object the caller holds (NoBounds: none yet)
    heap,            \* the Dataset objects of a call whose objects are followed:
                     \* heap[1] is the caller's grid, the others were made by the call
    caught,          \* the error the caller caught from the call before ("": none)
    disk             \* the files that exist, by path, with their contents

vars == <<pc, call, out, trace, modules, xesmf_installed, box, heap, caught, disk>>

---------------------------------------------------------------------------
(* Rational arithmetic with NaN                                            *)

NaN == <<0, 0>>

Abs(i) == IF i < 0 THEN -i ELSE i

RECURSIVE GCD(_, _)
GCD(a, b) == IF b = 0 THEN a ELSE GCD(b, a % b)

Rat(n, d) ==
    IF d = 0 THEN NaN
    ELSE LET g == GCD(Abs(n), Abs(d))
             s == IF d < 0 THEN -1 ELSE 1
         IN  <<(s * n) \div g, (s * d) \div g>>

R(i) == <<i, 1>>

IsNaN(x) == x[2] = 0

RAdd(x, y) == IF IsNaN(x) \/ IsNaN(y) THEN NaN
              ELSE Rat(x[1] * y[2] + y[1] * x[2], x[2] * y[2])
RSub(x, y) == IF IsNaN(x) \/ IsNaN(y) THEN NaN
              ELSE Rat(x[1] * y[2] - y[1] * x[2], x[2] * y[2])
RMul(x, y) == IF IsNaN(x) \/ IsNaN(y) THEN NaN
              ELSE Rat(x[1] * y[1], x[2] * y[2])
\* x / y for y # 0 (the callers decide what a zero divisor does)
RDiv(x, y) == IF IsNaN(x) \/ IsNaN(y) THEN NaN
              ELSE Rat(x[1] * y[2], x[2] * y[1])

RLt(x, y) == ~IsNaN(x) /\ ~IsNaN(y) /\ x[1] * y[2] < y[1] * x[2]
RLe(x, y) == ~IsNaN(x) /\ ~IsNaN(y) /\ x[1] * y[2] <= y[1] * x[2]
RGe(x, y) == RLe(y, x)
RGt(x, y) == RLt(y, x)

Floor(x) == x[1] \div x[2]
Ceil(x) == -((-x[1]) \div x[2])
\* Python's int(): truncation towards zero
Trunc(x) == IF x[1] >= 0 THEN Floor(x) ELSE Ceil(x)
\* numpy.round: round half to even
Round(x) ==
    LET f == Floor(x)
        twice == 2 * (x[1] - f * x[2])      \* 2 * fractional part * x[2]
    IN  IF twice < x[2] THEN f
        ELSE IF twice > x[2] THEN f + 1
        ELSE IF f % 2 = 0 THEN f ELSE f + 1

---------------------------------------------------------------------------
(* numpy / pandas helpers used by regrid.py                                *)

\* an array whose elements are computed once, when it is built
Array(f) == f @@ << >>

\* numpy.diff(a, n=1)
Diff(a) ==
    Array([k \in 1..(IF Len(a) = 0 THEN 0 ELSE Len(a) - 1) |-> RSub(a[k + 1], a[k])])

\* the k-th smallest element of the sequence s
Kth(s, k) ==
    CHOOSE v \in {s[i] : i \in DOMAIN s} :
        /\ Cardinality({i \in DOMAIN s : RLt(s[i], v)}) < k
        /\ Cardinality({i \in DOMAIN s : RLe(s[i], v)}) >= k

\* numpy.median: NaN for an empty array, the middle element for an odd
\* length, the mean of the two middle elements for an even length
Median(s) ==
    LET m == Len(s)
    IN  IF m = 0 THEN NaN
        ELSE IF m % 2 = 1 THEN Kth(s, (m + 1) \div 2)
        ELSE RDiv(RAdd(Kth(s, m \div 2), Kth(s, m \div 2 + 1)), R(2))

\* numpy.arange(start, stop, step): ceil((stop - start) / step) elements
Arange(start, stop, step) ==
    LET n == Ceil(RDiv(RSub(stop, start), step))
    IN  Array([k \in 1..(IF n < 0 THEN 0 ELSE n) |-> RAdd(start, RMul(R(k - 1), step))])

\* pandas.interval_range(start, end, periods, closed="left"): `periods`
\* equal-width intervals [left, right) from numpy.linspace(start, end, periods + 1)
IntervalRange(start, end, periods) ==
    Array([k \in 1..periods |->
        [left  |-> RAdd(start, RDiv(RMul(R(k - 1), RSub(end, start)), R(periods))),
         right |-> RAdd(start, RDiv(RMul(R(k), RSub(end, start)), R(periods)))]])

\* pandas.Interval.mid
Mid(v) == RDiv(RAdd(v.left, v.right), R(2))

\* membership in an interval closed on the left
InBin(x, v) == RLe(v.left, x) /\ RLt(x, v.right)

---------------------------------------------------------------------------
(* Data model                                                              *)

\* An xarray Dataset with one data variable over (latitude, longitude).
Dataset(lat, lon, vals) == [latitude |-> lat, longitude |-> lon, values |-> vals]

NoDataset == Dataset(<< >>, << >>, << >>)

Cells(ds) == (1..Len(ds.latitude)) \X (1..Len(ds.longitude))

\* SpatialBounds(north, east, south, west)
SpatialBounds(n, e, s, w) == [north |-> n, east |-> e, south |-> s, west |-> w]

\* SpatialBounds.__post_init__: the values that pass the validation
ValidBounds(b) == ~RGt(b.south, b.north) /\ ~RGt(b.west, b.east)

NorthSouthMessage ==
    <<"Value of southern bound is greater than norther bound.",
      "Please check the spatial bounds input.">>
EastWestMessage ==
    <<"Value of western bound is greater than east bound.",
      "Please check the spatial bounds input.">>

\* a faulty variant: the east/west check comes first
post_init_west_first(b) ==
    IF RGt(b.west, b.east) THEN EastWestMessage
    ELSE IF RGt(b.south, b.north) THEN NorthSouthMessage
    ELSE << >>

\* SpatialBounds.__post_init__: the message of the ValueError raised, << >>
\* when the construction succeeds
post_init(b) ==
    IF RGt(b.south, b.north) THEN NorthSouthMessage
    ELSE IF RGt(b.west, b.east) THEN EastWestMessage
    ELSE << >>

---------------------------------------------------------------------------
(* regrid.py                                                               *)

\* a faulty variant: the mean of the differences in place of the median
infer_resolution_mean(dataset) ==
    LET Mean(s) == IF Len(s) = 0 THEN NaN
                   ELSE RDiv(RSub(s[Len(s)], s[1]), R(Len(s) - 1))
    IN  <<Mean(dataset.latitude), Mean(dataset.longitude)>>

\* infer_resolution, lines 30-43: the median of the coordinate differences
\* of each axis, as (latitude, longitude)
infer_resolution(dataset) ==
    <<Median(Diff(dataset.latitude)), Median(Diff(dataset.longitude))>>

\* What a call hands back: a dataset, or a raised exception.
Return(ds) ==
    [ok |-> TRUE, error |-> "", message |-> << >>, dataset |-> ds,
     resolution |-> <<NaN, NaN>>]
Raise(err, msg) ==
    [ok |-> FALSE, error |-> err, message |-> msg, dataset |-> NoDataset,
     resolution |-> <<NaN, NaN>>]
\* infer_resolution returns a pair, not a dataset
ReturnPair(t) ==
    [ok |-> TRUE, error |-> "", message |-> << >>, dataset |-> NoDataset,
     resolution |-> t]

\* One entry of the call trace.
Called(fn, data, spatial_bounds, resolution) ==
    [fn |-> fn, data |-> data, spatial_bounds |-> spatial_bounds,
     resolution |-> resolution]

\* _groupby_regrid, lines 62-65: the minimum number of datapoints per group
na_thres == Rat(1, 10)

groupby_n_points(data, resolution) ==
    LET data_resolution == infer_resolution(data)
    IN  RMul(RDiv(resolution, data_resolution[1]),
             RDiv(resolution, data_resolution[2]))

groupby_min_points(data, resolution) ==
    Trunc(RMul(groupby_n_points(data, resolution), RSub(R(1), na_thres)))

\* int() of a float that is NaN raises ValueError, of an infinite one
\* OverflowError; numpy's float division by zero gives inf (0/0 gives NaN)
groupby_min_points_error(data, resolution) ==
    LET data_resolution == infer_resolution(data)
    IN  IF IsNaN(data_resolution[1]) \/ IsNaN(data_resolution[2]) THEN "ValueError"
        ELSE IF data_resolution[1][1] = 0 \/ data_resolution[2][1] = 0
        THEN (IF resolution[1] = 0 THEN "ValueError" ELSE "OverflowError")
        ELSE ""

\* a faulty variant: one bin too few (periods without the + 1)
groupby_bins_one_less(lo, hi, resolution) ==
    IntervalRange(RSub(lo, RMul(Rat(1, 2), resolution)),
                  RAdd(hi, RMul(Rat(1, 2), resolution)),
                  Round(RDiv(RSub(hi, lo), resolution)))

\* a faulty variant: the bins start at the bound, without the 0.5 * resolution offset
groupby_bins_uncentred(lo, hi, resolution) ==
    IntervalRange(lo, RAdd(hi, resolution),
                  Round(RDiv(RSub(hi, lo), resolution)) + 1)

\* _groupby_regrid, lines 68-80: the bins of one axis, centred on the target
\* coordinates
groupby_bins(lo, hi, resolution) ==
    IntervalRange(RSub(lo, RMul(Rat(1, 2), resolution)),
                  RAdd(hi, RMul(Rat(1, 2), resolution)),
                  Round(RDiv(RSub(hi, lo), resolution)) + 1)

\* the index of the bin that holds x, 0 when no bin does
BinOf(x, bins) ==
    IF \E k \in DOMAIN bins : InBin(x, bins[k])
    THEN CHOOSE k \in DOMAIN bins : InBin(x, bins[k])
    ELSE 0

RECURSIVE SumOver(_, _)
SumOver(vals, S) ==
    IF S = {} THEN R(0)
    ELSE LET c == CHOOSE c \in S : TRUE
         IN  RAdd(vals[c], SumOver(vals, S \ {c}))

\* flox's reduction of one group: the members that are not NaN, whether the
\* group is masked (fewer than min_count of them, or none), and their mean
GroupValid(data, members) == {c \in members : ~IsNaN(data.values[c])}

GroupMean(data, members) ==
    LET valid == GroupValid(data, members)
    IN  RDiv(SumOver(data.values, valid), R(Cardinality(valid)))

\* a faulty variant: the mean of the valid members, min_count ignored
reduce_group_no_min_count(data, members, min_count) ==
    IF GroupValid(data, members) = {} THEN NaN ELSE GroupMean(data, members)

reduce_group(data, members, min_count) ==
    IF Cardinality(GroupValid(data, members)) < min_count
       \/ GroupValid(data, members) = {}
    THEN NaN
    ELSE GroupMean(data, members)

\* the source cells grouped into target cell <<i, j>>
GroupMembers(data, lat_bins, lon_bins, i, j) ==
    {a \in 1..Len(data.latitude) : BinOf(data.latitude[a], lat_bins) = i}
        \X {b \in 1..Len(data.longitude) : BinOf(data.longitude[b], lon_bins) = j}

\* a faulty variant: expected_groups is not passed, so only the bins that hold
\* a source coordinate come back
xarray_reduce_observed_groups(data, lat_bins, lon_bins, min_count) ==
    LET lat_group ==
            Array([a \in 1..Len(data.latitude) |-> BinOf(data.latitude[a], lat_bins)])
        lon_group ==
            Array([b \in 1..Len(data.longitude) |-> BinOf(data.longitude[b], lon_bins)])
        lat_seen == SelectSeq([i \in DOMAIN lat_bins |-> i],
                              LAMBDA i : \E a \in DOMAIN lat_group : lat_group[a] = i)
        lon_seen == SelectSeq([j \in DOMAIN lon_bins |-> j],
                              LAMBDA j : \E b \in DOMAIN lon_group : lon_group[b] = j)
    IN  Dataset(
            Array([i \in DOMAIN lat_seen |-> Mid(lat_bins[lat_seen[i]])]),
            Array([j \in DOMAIN lon_seen |-> Mid(lon_bins[lon_seen[j]])]),
            Array([c \in (DOMAIN lat_seen) \X (DOMAIN lon_seen) |->
                reduce_group(data,
                    {a \in DOMAIN lat_group : lat_group[a] = lat_seen[c[1]]}
                        \X {b \in DOMAIN lon_group : lon_group[b] = lon_seen[c[2]]},
                    min_count)]))

\* floxarray.xarray_reduce(data, "latitude", "longitude", func="mean",
\*     expected_groups=(lat_bins, lon_bins), isbin=True, skipna=True, min_count)
\* and the conversion of the *_bins dimensions back to coordinates (lines 95-107)
xarray_reduce(data, lat_bins, lon_bins, min_count) ==
    LET lat_group ==
            Array([a \in 1..Len(data.latitude) |-> BinOf(data.latitude[a], lat_bins)])
        lon_group ==
            Array([b \in 1..Len(data.longitude) |-> BinOf(data.longitude[b], lon_bins)])
    IN  Dataset(
            Array([i \in DOMAIN lat_bins |-> Mid(lat_bins[i])]),
            Array([j \in DOMAIN lon_bins |-> Mid(lon_bins[j])]),
            Array([c \in (DOMAIN lat_bins) \X (DOMAIN lon_bins) |->
                reduce_group(data,
                    {a \in DOMAIN lat_group : lat_group[a] = c[1]}
                        \X {b \in DOMAIN lon_group : lon_group[b] = c[2]},
                    min_count)]))

_groupby_regrid(data, spatial_bounds, resolution) ==
    IF groupby_min_points_error(data, resolution) # ""
    THEN Raise(groupby_min_points_error(data, resolution), << >>)
    ELSE Return(xarray_reduce(
            data,
            groupby_bins(spatial_bounds.south, spatial_bounds.north, resolution),
            groupby_bins(spatial_bounds.west, spatial_bounds.east, resolution),
            groupby_min_points(data, resolution)))

\* xarray's sortby: the positions of the coordinates in ascending order
SortIndex(coords) ==
    Array([k \in 1..Len(coords) |->
        CHOOSE i \in 1..Len(coords) :
            Cardinality({j \in 1..Len(coords) : RLt(coords[j], coords[i])}) = k - 1])

\* a faulty variant: beyond the ends the outermost segment is extended
\* (fill_value="extrapolate")
interp1d_extrapolate(x, y, x_new) ==
    IF Len(x) < 2 THEN NaN
    ELSE LET below == Cardinality({i \in 1..Len(x) : RLt(x[i], x_new)})
             lo == IF below < 1 THEN 1 ELSE IF below > Len(x) - 1 THEN Len(x) - 1 ELSE below
             hi == lo + 1
             slope == RDiv(RSub(y[hi], y[lo]), RSub(x[hi], x[lo]))
         IN  RAdd(RMul(slope, RSub(x_new, x[lo])), y[lo])

\* scipy.interpolate.interp1d(x, y, kind="linear", bounds_error=False,
\* fill_value=nan) at x_new, for x ascending: the bracket is found with
\* searchsorted and clipped to the array, a NaN at either end of the bracket
\* makes the result NaN, and x_new outside [x[0], x[-1]] gives NaN
interp1d(x, y, x_new) ==
    IF Len(x) < 2 \/ RLt(x_new, x[1]) \/ RGt(x_new, x[Len(x)]) THEN NaN
    ELSE LET below == Cardinality({i \in 1..Len(x) : RLt(x[i], x_new)})
             lo == IF below < 1 THEN 1 ELSE IF below > Len(x) - 1 THEN Len(x) - 1 ELSE below
             hi == lo + 1
             slope == RDiv(RSub(y[hi], y[lo]), RSub(x[hi], x[lo]))
         IN  RAdd(RMul(slope, RSub(x_new, x[lo])), y[lo])

\* Dataset.interp(coords={"latitude": ..., "longitude": ...}, method="linear"):
\* the dataset is sorted by the two coordinates and interpolated along
\* latitude, then along longitude
interp(data, lat_coords, lon_coords) ==
    LET p == SortIndex(data.latitude)
        q == SortIndex(data.longitude)
        x_lat == Array([k \in DOMAIN p |-> data.latitude[p[k]]])
        x_lon == Array([k \in DOMAIN q |-> data.longitude[q[k]]])
        along_lat == Array([c \in (DOMAIN lat_coords) \X (DOMAIN q) |->
                        interp1d(x_lat, [k \in DOMAIN p |-> data.values[<<p[k], q[c[2]]>>]],
                                 lat_coords[c[1]])])
    IN  Dataset(lat_coords, lon_coords,
                Array([c \in (DOMAIN lat_coords) \X (DOMAIN lon_coords) |->
                    interp1d(x_lon, [k \in DOMAIN q |-> along_lat[<<c[1], k>>]],
                             lon_coords[c[2]])]))

\* A dataset with a time dimension: values over (time, latitude, longitude).
TimeDataset(time, lat, lon, vals) ==
    [time |-> time, latitude |-> lat, longitude |-> lon, values |-> vals]

\* the (latitude, longitude) field at time index t
Slice(data, t) ==
    Dataset(data.latitude, data.longitude,
        Array([c \in (DOMAIN data.latitude) \X (DOMAIN data.longitude) |->
            data.values[<<t, c[1], c[2]>>]]))

\* Dataset.interp on a dataset with a time dimension: the interpolation runs
\* along latitude and longitude for every index of the other dimension,
\* whose coordinate is carried over
interp_time(data, lat_coords, lon_coords) ==
    LET slices == Array([t \in DOMAIN data.time |->
                        interp(Slice(data, t), lat_coords, lon_coords)])
    IN  TimeDataset(data.time, lat_coords, lon_coords,
            Array([c \in (DOMAIN data.time) \X (DOMAIN lat_coords) \X (DOMAIN lon_coords) |->
                slices[c[1]].values[<<c[2], c[3]>>]]))

\* a faulty variant: the stop of the range is the bound itself
interp_coords_exclusive(lo, hi, resolution) == Arange(lo, hi, resolution)

\* _interp_regrid, lines 129-134: the target coordinates of one axis
interp_coords(lo, hi, resolution) == Arange(lo, RAdd(hi, resolution), resolution)

\* numpy.arange raises ValueError for a NaN step and ZeroDivisionError for a
\* zero step
_interp_regrid(data, spatial_bounds, resolution) ==
    IF IsNaN(resolution) THEN Raise("ValueError", << >>)
    ELSE IF resolution[1] = 0 THEN Raise("ZeroDivisionError", << >>)
    ELSE Return(interp(data,
            interp_coords(spatial_bounds.south, spatial_bounds.north, resolution),
            interp_coords(spatial_bounds.west, spatial_bounds.east, resolution)))

\* _interp_regrid of a dataset with a time dimension
_interp_regrid_time(data, spatial_bounds, resolution) ==
    IF IsNaN(resolution) THEN Raise("ValueError", << >>)
    ELSE IF resolution[1] = 0 THEN Raise("ZeroDivisionError", << >>)
    ELSE Return(interp_time(data,
            interp_coords(spatial_bounds.south, spatial_bounds.north, resolution),
            interp_coords(spatial_bounds.west, spatial_bounds.east, resolution)))

\* Python's min() of a pair: the first element unless the second is smaller
PyMin(t) == IF RLt(t[2], t[1]) THEN t[2] ELSE t[1]

\* flox_regrid, lines 175-176
old_resolution(data) == PyMin(infer_resolution(data))

\* a faulty variant: aggregation alone from twice the source resolution on
flox_strategy_factor_two(data, resolution) ==
    IF RGe(resolution, RMul(R(2), old_resolution(data))) THEN "groupby"
    ELSE IF RLe(resolution, RMul(Rat(1, 4), old_resolution(data))) THEN "interp"
    ELSE "hybrid"

\* a faulty variant: the two thresholds are compared strictly
flox_strategy_strict(data, resolution) ==
    IF RGt(resolution, RMul(R(4), old_resolution(data))) THEN "groupby"
    ELSE IF RLt(resolution, RMul(Rat(1, 4), old_resolution(data))) THEN "interp"
    ELSE "hybrid"

\* flox_regrid, lines 180-188: which branch is taken
flox_strategy(data, resolution) ==
    IF RGe(resolution, RMul(R(4), old_resolution(data))) THEN "groupby"
    ELSE IF RLe(resolution, RMul(Rat(1, 4), old_resolution(data))) THEN "interp"
    ELSE "hybrid"

\* a faulty variant: in the hybrid branch the aggregator's threshold is
\* computed from the caller's grid, not from the interpolated one
flox_regrid_threshold_of_source(data, spatial_bounds, resolution) ==
    LET strategy == flox_strategy(data, resolution)
        fine == RDiv(old_resolution(data), R(4))
        ds_in_interp == _interp_regrid(data, spatial_bounds, fine)
    IN  IF strategy = "groupby"
        THEN [out   |-> _groupby_regrid(data, spatial_bounds, resolution),
              trace |-> <<Called("_groupby_regrid", data, spatial_bounds, resolution)>>]
        ELSE IF strategy = "interp"
        THEN [out   |-> _interp_regrid(data, spatial_bounds, resolution),
              trace |-> <<Called("_interp_regrid", data, spatial_bounds, resolution)>>]
        ELSE IF ~ds_in_interp.ok
        THEN [out   |-> ds_in_interp,
              trace |-> <<Called("_interp_regrid", data, spatial_bounds, fine)>>]
        ELSE [out   |-> IF groupby_min_points_error(ds_in_interp.dataset, resolution) # ""
                        THEN _groupby_regrid(ds_in_interp.dataset, spatial_bounds, resolution)
                        ELSE Return(xarray_reduce(
                                ds_in_interp.dataset,
                                groupby_bins(spatial_bounds.south, spatial_bounds.north,
                                             resolution),
                                groupby_bins(spatial_bounds.west, spatial_bounds.east,
                                             resolution),
                                groupby_min_points(data, resolution))),
              trace |-> <<Called("_interp_regrid", data, spatial_bounds, fine),
                          Called("_groupby_regrid", ds_in_interp.dataset,
                                 spatial_bounds, resolution)>>]

\* a faulty variant: the hybrid branch returns the interpolated grid
flox_regrid_no_reduce(data, spatial_bounds, resolution) ==
    LET strategy == flox_strategy(data, resolution)
        fine == RDiv(old_resolution(data), R(4))
    IN  IF strategy = "groupby"
        THEN [out   |-> _groupby_regrid(data, spatial_bounds, resolution),
              trace |-> <<Called("_groupby_regrid", data, spatial_bounds, resolution)>>]
        ELSE IF strategy = "interp"
        THEN [out   |-> _interp_regrid(data, spatial_bounds, resolution),
              trace |-> <<Called("_interp_regrid", data, spatial_bounds, resolution)>>]
        ELSE [out   |-> _interp_regrid(data, spatial_bounds, fine),
              trace |-> <<Called("_interp_regrid", data, spatial_bounds, fine)>>]

\* flox_regrid: the outcome and the calls made to the two regridders
flox_regrid(data, spatial_bounds, resolution) ==
    LET strategy == flox_strategy(data, resolution)
        fine == RDiv(old_resolution(data), R(4))
    IN  IF strategy = "groupby"
        THEN [out   |-> _groupby_regrid(data, spatial_bounds, resolution),
              trace |-> <<Called("_groupby_regrid", data, spatial_bounds, resolution)>>]
        ELSE IF strategy = "interp"
        THEN [out   |-> _interp_regrid(data, spatial_bounds, resolution),
              trace |-> <<Called("_interp_regrid", data, spatial_bounds, resolution)>>]
        ELSE LET ds_in_interp == _interp_regrid(data, spatial_bounds, fine)
             IN  IF ~ds_in_interp.ok
                 THEN [out   |-> ds_in_interp,
                       trace |-> <<Called("_interp_regrid", data, spatial_bounds, fine)>>]
                 ELSE [out   |-> _groupby_regrid(ds_in_interp.dataset, spatial_bounds,
                                                 resolution),
                       trace |-> <<Called("_interp_regrid", data, spatial_bounds, fine),
                                   Called("_groupby_regrid", ds_in_interp.dataset,
                                          spatial_bounds, resolution)>>]

---------------------------------------------------------------------------
(* regrid.py, object by object: which Dataset object each statement makes  *)
(* and which it writes to.  A heap is a sequence of Dataset objects; an id  *)
(* is a position in it.                                                     *)

Mids(bins) == Array([k \in DOMAIN bins |-> Mid(bins[k])])

\* a faulty variant: the coordinates are written to the input grid
groupby_assign_target_input(input, ds_out) == input

\* _groupby_regrid, lines 95-102: the object of the two item assignments
groupby_assign_target(input, ds_out) == ds_out

\* _groupby_regrid: xarray_reduce makes ds_out, with the bins as coordinates
\* (83-92); the mids are assigned to ds_out["latitude"], ds_out["longitude"]
\* (95-102); set_coords, swap_dims, drop_vars and transpose each return a new
\* object (103-111), the last of which is returned
groupby_objects(h, input, spatial_bounds, resolution) ==
    LET data == h[input]
    IN  IF groupby_min_points_error(data, resolution) # ""
        THEN [heap |-> h, out |-> Raise(groupby_min_points_error(data, resolution), << >>)]
        ELSE LET lat_bins == groupby_bins(spatial_bounds.south, spatial_bounds.north,
                                          resolution)
                 lon_bins == groupby_bins(spatial_bounds.west, spatial_bounds.east,
                                          resolution)
                 reduced == xarray_reduce(data, lat_bins, lon_bins,
                                          groupby_min_points(data, resolution))
                 ds_out == Len(h) + 1
                 target == groupby_assign_target(input, ds_out)
                 h1 == Append(h, Dataset(lat_bins, lon_bins, reduced.values))
                 h2 == [h1 EXCEPT ![target].latitude = Mids(lat_bins),
                                  ![target].longitude = Mids(lon_bins)]
                 h3 == Append(h2, h2[ds_out])
             IN  [heap |-> h3, out |-> Return(h3[Len(h3)])]

\* _interp_regrid: data.interp returns a new object
interp_objects(h, input, spatial_bounds, resolution) ==
    LET res == _interp_regrid(h[input], spatial_bounds, resolution)
    IN  [heap |-> IF res.ok THEN Append(h, res.dataset) ELSE h, out |-> res]

\* flox_regrid: in the hybrid branch the aggregator's input is the object
\* the interpolator returned
flox_objects(h, input, spatial_bounds, resolution) ==
    LET strategy == flox_strategy(h[input], resolution)
        fine == RDiv(old_resolution(h[input]), R(4))
    IN  IF strategy = "groupby" THEN groupby_objects(h, input, spatial_bounds, resolution)
        ELSE IF strategy = "interp" THEN interp_objects(h, input, spatial_bounds, resolution)
        ELSE LET ds_in_interp == interp_objects(h, input, spatial_bounds, fine)
             IN  IF ~ds_in_interp.out.ok THEN ds_in_interp
                 ELSE groupby_objects(ds_in_interp.heap, Len(ds_in_interp.heap),
                                      spatial_bounds, resolution)

\* the objects of a call of one of the four functions (regrid_data with the
\* adaptive method hands its arguments to flox_regrid)
call_objects(op, data, spatial_bounds, resolution) ==
    IF op = "_groupby_regrid" THEN groupby_objects(<<data>>, 1, spatial_bounds, resolution)
    ELSE IF op = "_interp_regrid" THEN interp_objects(<<data>>, 1, spatial_bounds, resolution)
    ELSE flox_objects(<<data>>, 1, spatial_bounds, resolution)

---------------------------------------------------------------------------
(* xesmf_regrid.py                                                         *)

\* a faulty variant: the stop of the range is the bound itself
create_new_grid_coords_exclusive(lo, hi, resolution) == Arange(lo, hi, resolution)

\* create_new_grid: the coordinates of one axis of the new grid
create_new_grid_coords(lo, hi, resolution) ==
    Arange(lo, RAdd(hi, RMul(Rat(9, 10), resolution)), resolution)

\* xesfm_regrid: the new grid comes from create_new_grid; the values are
\* computed by the xesmf library and are not modelled
xesfm_regrid(data, spatial_bounds, resolution) ==
    Return(Dataset(
        create_new_grid_coords(spatial_bounds.south, spatial_bounds.north, resolution),
        create_new_grid_coords(spatial_bounds.west, spatial_bounds.east, resolution),
        << >>))

---------------------------------------------------------------------------
(* regrid.py: the facade                                                   *)

InstallMessage ==
    <<"Could not import the xesmf module.", "Please install this",
      " before continuing, with either pip or conda.">>

\* assert_xesmf_available: "" when the import succeeds, else the error raised
assert_xesmf_available(installed) == IF installed THEN "" ELSE "ImportError"

\* a faulty variant: the default method is "esmf"
regrid_data_default_esmf(method_given, method) == IF method_given THEN method ELSE "esmf"

\* regrid_data's signature, line 197: the method the body sees
regrid_data_method(method_given, method) == IF method_given THEN method ELSE "flox"

\* a faulty variant: every token runs the adaptive engine
regrid_data_unknown_to_flox(data, spatial_bounds, resolution, method, installed, loaded) ==
    LET res == flox_regrid(data, spatial_bounds, resolution)
    IN  [out     |-> res.out,
         trace   |-> <<Called("flox_regrid", data, spatial_bounds, resolution)>> \o res.trace,
         modules |-> loaded]

\* a faulty variant: the backend module is imported before the availability
\* check, and an unknown token is still rejected
regrid_data_import_first(data, spatial_bounds, resolution, method, installed, loaded) ==
    IF method = "flox"
    THEN regrid_data_unknown_to_flox(data, spatial_bounds, resolution, method, installed, loaded)
    ELSE IF method = "esmf"
    THEN IF installed
         THEN [out     |-> xesfm_regrid(data, spatial_bounds, resolution),
               trace   |-> <<Called("assert_xesmf_available", NoDataset, spatial_bounds, NaN),
                             Called("xesfm_regrid", data, spatial_bounds, resolution)>>,
               modules |-> loaded \cup {"xesmf", "zampy.utils.xesmf_regrid"}]
         ELSE [out     |-> Raise("ImportError", << >>),
               trace   |-> << >>,
               modules |-> loaded \cup {"zampy.utils.xesmf_regrid"}]
    ELSE [out     |-> Raise("ValueError", <<"Unknown regridding method '", method, "'">>),
          trace   |-> << >>,
          modules |-> loaded]

\* a faulty variant: once the backend module is loaded, the availability
\* check is not made again
regrid_data_check_once(data, spatial_bounds, resolution, method, installed, loaded) ==
    IF method = "flox"
    THEN regrid_data_unknown_to_flox(data, spatial_bounds, resolution, method, installed, loaded)
    ELSE IF method = "esmf"
    THEN IF "zampy.utils.xesmf_regrid" \in loaded
         THEN [out     |-> xesfm_regrid(data, spatial_bounds, resolution),
               trace   |-> <<Called("xesfm_regrid", data, spatial_bounds, resolution)>>,
               modules |-> loaded]
         ELSE IF assert_xesmf_available(installed) # ""
         THEN [out     |-> Raise(assert_xesmf_available(installed), InstallMessage),
               trace   |-> <<Called("assert_xesmf_available", NoDataset, spatial_bounds, NaN)>>,
               modules |-> loaded]
         ELSE [out     |-> xesfm_regrid(data, spatial_bounds, resolution),
               trace   |-> <<Called("assert_xesmf_available", NoDataset, spatial_bounds, NaN),
                             Called("xesfm_regrid", data, spatial_bounds, resolution)>>,
               modules |-> loaded \cup {"xesmf", "zampy.utils.xesmf_regrid"}]
    ELSE [out     |-> Raise("ValueError", <<"Unknown regridding method '", method, "'">>),
          trace   |-> << >>,
          modules |-> loaded]

\* regrid_data, lines 212-222: the outcome, the calls made and the modules
\* loaded afterwards
regrid_data(data, spatial_bounds, resolution, method, installed, loaded) ==
    IF method = "flox"
    THEN LET res == flox_regrid(data, spatial_bounds, resolution)
         IN  [out     |-> res.out,
              trace   |-> <<Called("flox_regrid", data, spatial_bounds, resolution)>>
                             \o res.trace,
              modules |-> loaded]
    ELSE IF method = "esmf"
    THEN IF assert_xesmf_available(installed) # ""
         THEN [out     |-> Raise(assert_xesmf_available(installed), InstallMessage),
               trace   |-> <<Called("assert_xesmf_available", NoDataset, spatial_bounds, NaN)>>,
               modules |-> loaded]
         ELSE [out     |-> xesfm_regrid(data, spatial_bounds, resolution),
               trace   |-> <<Called("assert_xesmf_available", NoDataset, spatial_bounds, NaN),
                             Called("xesfm_regrid", data, spatial_bounds, resolution)>>,
               modules |-> loaded \cup {"xesmf", "zampy.utils.xesmf_regrid"}]
    ELSE [out     |-> Raise("ValueError", <<"Unknown regridding method '", method, "'">>),
          trace   |-> << >>,
          modules |-> loaded]

---------------------------------------------------------------------------
(* validation.py                                                           *)

\* TimeBounds(start, end).  In the validation the times are day numbers.
TimeBounds(start, end) == [start |-> start, end |-> end]

\* A numpy.datetime64 with its unit: a count of days ("D") or of minutes
\* ("m") since 2020-01-01.
DateTime(unit, count) == [unit |-> unit, count |-> count]

\* the value cast to minutes, the common unit of a comparison
Minutes(t) == IF t.unit = "D" THEN t.count * 1440 ELSE t.count

\* A Python str: its code points.
Str(text) == [text |-> text]

\* str < str: the first differing character decides, a proper prefix is smaller
str_lt(a, b) ==
    \E k \in 1..(Len(b)) :
        /\ \A i \in 1..(k - 1) : i <= Len(a) /\ a[i] = b[i]
        /\ k - 1 <= Len(a)
        /\ (k <= Len(a) => a[k] < b[k])

\* Python's a < b for two datetime64 values or two strings
Lt(a, b) ==
    IF "text" \in DOMAIN a THEN str_lt(a.text, b.text)
    ELSE Minutes(a) < Minutes(b)

\* str(numpy.datetime64): "2020-01-DD" for the day unit, "2020-01-DDThh:mm"
\* for the minute unit
datetime64_str(t) ==
    LET TwoDigits(n) == <<48 + (n \div 10), 48 + (n % 10)>>
        day == IF t.unit = "D" THEN t.count ELSE t.count \div 1440
        date == <<50, 48, 50, 48, 45, 48, 49, 45>> \o TwoDigits(day + 1)
    IN  IF t.unit = "D" THEN Str(date)
        ELSE Str(date \o <<84>> \o TwoDigits((t.count % 1440) \div 60)
                      \o <<58>> \o TwoDigits(t.count % 60))

TimeBoundsMessage == <<"Start time should be smaller than end time.">>

\* a faulty variant: equal start and end are rejected too
TimeBounds_post_init_strict(tb) ==
    IF ~Lt(tb.start, tb.end) THEN TimeBoundsMessage ELSE << >>

\* TimeBounds.__post_init__: the message of the ValueError raised, << >> when
\* the construction succeeds
TimeBounds_post_init(tb) ==
    IF Lt(tb.end, tb.start) THEN TimeBoundsMessage ELSE << >>

\* compare_variables: the error raised, "" when every requested variable is
\* one of the dataset's
compare_variables(dataset, variable_names) ==
    IF \A k \in DOMAIN variable_names :
            \E v \in DOMAIN dataset.variable_names :
                dataset.variable_names[v] = variable_names[k]
    THEN ""
    ELSE "InvalidVariableError"

VariableMessage(dataset) ==
    <<<<"Input variable and/or units does not match the dataset", dataset.name>>>>

\* compare_time_bounds: the error message built up, one entry per end of
\* the requested range that the dataset does not cover
compare_time_bounds(dataset, request_bounds) ==
    (IF dataset.time_bounds.start > request_bounds.start
     THEN <<<<"could not cover the start of requested range",
              dataset.time_bounds.start, request_bounds.start>>>>
     ELSE << >>)
    \o
    (IF dataset.time_bounds.end < request_bounds.end
     THEN <<<<"could not cover the end of requested range",
              dataset.time_bounds.end, request_bounds.end>>>>
     ELSE << >>)

\* a faulty variant: the time bounds are compared before the variables
validate_download_request_time_first(dataset, time_bounds, variable_names) ==
    IF Len(compare_time_bounds(dataset, time_bounds)) > 0
    THEN Raise("InvalidTimeBoundsError", compare_time_bounds(dataset, time_bounds))
    ELSE IF compare_variables(dataset, variable_names) # ""
    THEN Raise(compare_variables(dataset, variable_names), VariableMessage(dataset))
    ELSE Return(NoDataset)

\* validate_download_request: compare_variables, then compare_time_bounds;
\* the download directory and the spatial bounds are not looked at
validate_download_request(dataset, time_bounds, variable_names) ==
    IF compare_variables(dataset, variable_names) # ""
    THEN Raise(compare_variables(dataset, variable_names), VariableMessage(dataset))
    ELSE IF Len(compare_time_bounds(dataset, time_bounds)) > 0
    THEN Raise("InvalidTimeBoundsError", compare_time_bounds(dataset, time_bounds))
    ELSE Return(NoDataset)

---------------------------------------------------------------------------
(* dataset_protocol.py: the properties file                                *)

\* What read_properties_file hands back: the tuple (SpatialBounds, TimeBounds,
\* variable names).
ReturnProperties(spatial_bounds, time_bounds, variable_names) ==
    [ok |-> TRUE, error |-> "", message |-> << >>, dataset |-> NoDataset,
     resolution |-> <<NaN, NaN>>,
     properties |-> <<spatial_bounds, time_bounds, variable_names>>]

\* the path dataset_folder / FNAME_PROPERTIES
PropertiesPath(dataset_folder) == <<dataset_folder, "properties.json">>

\* json.dumps of a float: its repr, the decimal digits of the value (here for
\* the values that are whole or a whole plus a half)
float_repr(x) ==
    LET RECURSIVE DecimalDigits(_)
        DecimalDigits(n) ==
            IF n < 10 THEN <<48 + n>>
            ELSE DecimalDigits(n \div 10) \o <<48 + (n % 10)>>
    IN  (IF x[1] < 0 THEN <<45>> ELSE << >>)
            \o DecimalDigits(Abs(x[1]) \div x[2])
            \o <<46>> \o (IF x[2] = 1 THEN <<48>> ELSE <<53>>)

\* json.load of a number: the value of its decimal digits
float_parse(text) ==
    LET RECURSIVE DigitsValue(_)
        DigitsValue(d) ==
            IF d = << >> THEN 0
            ELSE 10 * DigitsValue(SubSeq(d, 1, Len(d) - 1)) + (d[Len(d)] - 48)
        RECURSIVE Pow10(_)
        Pow10(n) == IF n = 0 THEN 1 ELSE 10 * Pow10(n - 1)
        negative == text[1] = 45
        body == IF negative THEN Tail(text) ELSE text
        dot == CHOOSE k \in DOMAIN body : body[k] = 46
        fraction == SubSeq(body, dot + 1, Len(body))
        value == RAdd(R(DigitsValue(SubSeq(body, 1, dot - 1))),
                      Rat(DigitsValue(fraction), Pow10(Len(fraction))))
    IN  IF negative THEN RSub(R(0), value) ELSE value

\* write_properties_file: the JSON text written to the folder's properties
\* file, replacing the file if there is one
write_properties_file(d, dataset_folder, spatial_bounds, time_bounds, variable_names) ==
    LET json_object ==
            [start_time |-> datetime64_str(time_bounds.start),
             end_time |-> datetime64_str(time_bounds.end),
             north |-> float_repr(spatial_bounds.north),
             east |-> float_repr(spatial_bounds.east),
             south |-> float_repr(spatial_bounds.south),
             west |-> float_repr(spatial_bounds.west),
             variable_names |-> variable_names]
    IN  (PropertiesPath(dataset_folder) :> json_object) @@ d

\* read_properties_file: the file is parsed and the two bounds objects are
\* constructed from its values, the times as the strings they were stored as
read_properties_file(d, dataset_folder) ==
    LET json_dict == d[PropertiesPath(dataset_folder)]
        spatial_bounds ==
            SpatialBounds(float_parse(json_dict.north), float_parse(json_dict.east),
                          float_parse(json_dict.south), float_parse(json_dict.west))
        time_bounds == TimeBounds(json_dict.start_time, json_dict.end_time)
    IN  IF PropertiesPath(dataset_folder) \notin DOMAIN d
        THEN Raise("FileNotFoundError", << >>)
        ELSE IF post_init(spatial_bounds) # << >>
        THEN Raise("ValueError", post_init(spatial_bounds))
        ELSE IF TimeBounds_post_init(time_bounds) # << >>
        THEN Raise("ValueError", TimeBounds_post_init(time_bounds))
        ELSE ReturnProperties(spatial_bounds, time_bounds, json_dict.variable_names)

\* copy_properties_file: shutil.copy of the source folder's file to the target
\* folder; the disk afterwards and the outcome
copy_properties_file(d, source_folder, target_folder) ==
    IF PropertiesPath(source_folder) \notin DOMAIN d
    THEN [disk |-> d, out |-> Raise("FileNotFoundError", << >>)]
    ELSE IF source_folder = target_folder
    THEN [disk |-> d, out |-> Raise("SameFileError", << >>)]
    ELSE [disk |-> (PropertiesPath(target_folder) :> d[PropertiesPath(source_folder)]) @@ d,
          out  |-> Return(NoDataset)]

---------------------------------------------------------------------------
(* datasets/utils.py and the ingest converters: files on disk.  A path is   *)
(* <<folder, stem, suffix>>; of a file's content the size is kept, and      *)
(* whether it is a converted (netCDF) file.                                 *)

\* one statement carried out for one dataset or file
Step(fn, target) == [fn |-> fn, dataset |-> target]

\* get_file_size: 0 for a path that does not exist
get_file_size(d, fpath) == IF fpath \in DOMAIN d THEN d[fpath].size ELSE 0

\* download_url for a URL whose Content-Length is url_size: urlretrieve
\* writes the `received` bytes to fpath, and raises when the transfer ended
\* before url_size bytes had arrived
download_url(d, url_size, fpath, overwrite, received) ==
    IF get_file_size(d, fpath) # url_size \/ overwrite
    THEN [disk  |-> (fpath :> [size |-> received, converted |-> FALSE]) @@ d,
          trace |-> <<Step("urlretrieve", fpath)>>,
          out   |-> IF received = url_size THEN Return(NoDataset)
                    ELSE Raise("ContentTooShortError", << >>)]
    ELSE [disk |-> d, trace |-> << >>, out |-> Return(NoDataset)]

\* a faulty variant: an existing target is always written again
convert_always(converter, d, ingest_folder, file, overwrite) ==
    LET ncfile == <<ingest_folder, file[2], "nc">>
    IN  [disk  |-> (ncfile :> [size |-> d[file].size, converted |-> TRUE]) @@ d,
         trace |-> <<Step(converter, ncfile)>>]

\* convert_to_zampy, convert_tiff_to_netcdf and convert_raw_dem_to_netcdf (the
\* same statements, each with its own parser): the target is the file's name
\* with the suffix .nc in the ingest folder; it is skipped when it exists and
\* overwrite is false, else the parsed file is written to it
convert(converter, d, ingest_folder, file, overwrite) ==
    LET ncfile == <<ingest_folder, file[2], "nc">>
    IN  IF ncfile \in DOMAIN d /\ ~overwrite
        THEN [disk |-> d, trace |-> << >>]
        ELSE [disk  |-> (ncfile :> [size |-> d[file].size, converted |-> TRUE]) @@ d,
              trace |-> <<Step(converter, ncfile)>>]

---------------------------------------------------------------------------
(* The inputs of the calls                                                 *)

MaxAxisLen == 4      \* samples per axis of a source grid
MaxInferLen == 5     \* samples per axis of the grids given to infer_resolution
MaxCoord == 2        \* the target latitudes lie in 0..MaxCoord
MaxLonExtent == 1    \* east - west lies in 0..MaxLonExtent
MaxRes == 4          \* the target resolutions are k and k/2 for k in 1..MaxRes
MaxTime == 3         \* the time bounds lie in 0..MaxTime
MaxSize == 2         \* a remote file has 0..MaxSize bytes

Reverse(s) == Array([k \in 1..Len(s) |-> s[Len(s) + 1 - k]])

\* a uniform axis: n samples from start, spaced by step
Axis(start, step, n) == Array([k \in 1..n |-> R(start + (k - 1) * step)])

\* an axis spaced by d, except for one edge cell of width e
EdgeAxis(start, d, e, n, at_end) ==
    Array([k \in 1..n |->
        IF at_end
        THEN (IF k < n THEN R(start + (k - 1) * d) ELSE R(start + (n - 2) * d + e))
        ELSE (IF k = 1 THEN R(start) ELSE R(start + e + (k - 2) * d))])

Ascending(steps, lens) == {Axis(0, d, n) : d \in steps, n \in lens}
BothWays(axes) == axes \cup {Reverse(a) : a \in axes}
EdgeAxes(lens) ==
    {EdgeAxis(0, d, e, n, at_end) :
        d \in {1, 2}, e \in {3, 5}, n \in lens, at_end \in BOOLEAN}

InferLatAxes == BothWays(Ascending({1, 2}, 1..MaxInferLen)) \cup EdgeAxes(3..MaxInferLen)
InferLonAxes == Ascending({1}, 2..3) \cup EdgeAxes(3..4)

\* the data variable: a value at every cell, computed from its coordinates
\* (not linear in the latitude), and NaN at the cells in `missing`
FieldValue(lat, lon) == RAdd(R(1), RAdd(RMul(lat, lat), RMul(R(2), lon)))

MakeDataset(lat, lon, missing) ==
    Dataset(lat, lon,
        Array([c \in (1..Len(lat)) \X (1..Len(lon)) |->
            IF c \in missing THEN NaN ELSE FieldValue(lat[c[1]], lon[c[2]])]))

\* a field of a given shape over the grid: constant, linear in both
\* coordinates, or curved (FieldValue)
ShapedValue(shape, lat, lon) ==
    IF shape = "constant" THEN R(3)
    ELSE IF shape = "linear" THEN RAdd(R(1), RAdd(lat, RMul(R(2), lon)))
    ELSE FieldValue(lat, lon)

MakeShapedDataset(shape, lat, lon, missing) ==
    Dataset(lat, lon,
        Array([c \in (1..Len(lat)) \X (1..Len(lon)) |->
            IF c \in missing THEN NaN ELSE ShapedValue(shape, lat[c[1]], lon[c[2]])]))

Shapes == {"constant", "linear", "curved"}

\* regular grids with the same spacing on both axes, with and without a
\* missing cell
MatchingDatasets ==
    {MakeShapedDataset(shape, Axis(lat0, d, n), Axis(0, d, m), missing) :
        shape \in Shapes, lat0 \in {0, 1}, d \in {1, 2},
        n \in 2..MaxAxisLen, m \in 2..MaxAxisLen,
        missing \in {{}, {<<1, 1>>}, {<<2, 2>>}}}

\* the box spanned by the grid's own coordinates
ExtentOf(data) ==
    SpatialBounds(data.latitude[Len(data.latitude)], data.longitude[Len(data.longitude)],
                  data.latitude[1], data.longitude[1])

\* the source grids handed to the aggregator: also one-sample axes, which is
\* what the interpolator produces for a box with north = south
GroupbyDatasets ==
    {MakeDataset(lat, lon, missing) :
        lat \in Ascending({1, 2}, 1..MaxAxisLen) \cup {Reverse(Axis(0, 1, MaxAxisLen))},
        lon \in {Axis(0, 1, 3), Axis(0, 2, 2)},
        missing \in {{}, {<<1, 1>>}, {<<1, 1>>, <<2, 1>>}}}

InterpDatasets ==
    {MakeDataset(lat, lon, missing) :
        lat \in BothWays(Ascending({1, 2}, 2..3)),
        lon \in Ascending({1, 2}, {2}),
        missing \in {{}, {<<1, 1>>}}}

\* datasets with two time steps, the field changing with time
InterpTimeDatasets ==
    {TimeDataset(<<R(10), R(20)>>, lat, lon,
        Array([c \in (1..2) \X (DOMAIN lat) \X (DOMAIN lon) |->
            IF <<c[2], c[3]>> \in missing /\ c[1] = 1 THEN NaN
            ELSE RAdd(R(c[1] * c[1]), FieldValue(lat[c[2]], lon[c[3]]))])) :
        lat \in BothWays(Ascending({1, 2}, {3})),
        lon \in Ascending({1}, {2}),
        missing \in {{}, {<<2, 1>>}}}

FloxDatasets ==
    {MakeDataset(lat, lon, {}) :
        lat \in Ascending({1, 2, 4}, 2..3) \cup {Reverse(Axis(0, 1, 3))},
        lon \in Ascending({1, 2, 4}, {2})}

FacadeDatasets ==
    {MakeDataset(lat, lon, {}) : lat \in Ascending({1, 4}, {3}), lon \in Ascending({1}, {2})}

\* the values given to the SpatialBounds constructor and assigned to its fields
BoxCoords == {R(k) : k \in 0..MaxCoord}

BoxDatasets == {MakeDataset(Axis(0, 1, 3), Axis(0, 1, 2), {})}

\* SpatialBounds objects: those whose construction succeeded
BoundsSet ==
    {b \in {SpatialBounds(R(n), R(e), R(s), R(w)) :
                n \in 0..MaxCoord, s \in 0..MaxCoord,
                e \in 0..(MaxLonExtent + 1), w \in 0..1} :
        ValidBounds(b) /\ RLe(RSub(b.east, b.west), R(MaxLonExtent))}

GroupbyResolutions == {R(k) : k \in 1..MaxRes}
Resolutions == {Rat(k, d) : k \in 1..MaxRes, d \in {1, 2}}

\* target resolutions that violate the input contract
NonPositiveResolutions == {R(0), R(-1), Rat(-1, 2)}

RegridOps == {"regrid_data", "flox_regrid", "_groupby_regrid", "_interp_regrid"}

\* TimeBounds objects: those whose construction succeeded (start <= end)
TimeBoundsSet ==
    {tb \in {TimeBounds(start, end) : start \in 0..MaxTime, end \in 0..MaxTime} :
        ~(tb.end < tb.start)}

\* datetime64 values: whole days, and minutes at the start of a day
DateTimes ==
    {DateTime("D", d) : d \in 0..MaxTime}
        \cup {DateTime("m", (1440 * d) + k) : d \in 0..1, k \in 0..1}

\* the folders of the working directory
Folders == {"download", "ingest"}

\* the bounds and names written to a properties file: SpatialBounds and
\* TimeBounds objects whose construction succeeded
PropertiesBounds ==
    {b \in {SpatialBounds(n, n, s, s) : n \in {Rat(1, 2), R(MaxCoord)},
                                         s \in {Rat(-3, 2)}} : ValidBounds(b)}
PropertiesTimeBounds ==
    {tb \in {TimeBounds(start, end) :
                start \in {DateTime("D", 0), DateTime("m", 0), DateTime("m", 1)},
                end \in {DateTime("D", 0), DateTime("D", MaxTime), DateTime("m", 1)}} :
        TimeBounds_post_init(tb) = << >>}
PropertiesNames == {<<"Hveg", "SWnet">>, << >>}

\* dataset definitions: a name, the variables offered and the period covered
CatalogDatasets ==
    {[name |-> "eth-canopy-height",
      variable_names |-> <<"height_of_vegetation",
                           "height_of_vegetation_standard_deviation">>,
      time_bounds |-> tb] : tb \in TimeBoundsSet}

RequestedNames ==
    {"height_of_vegetation", "height_of_vegetation_standard_deviation", "fake_var"}

\* the lists of variables of a request: none, one or two names
VariableRequests ==
    {<< >>} \cup {<<v>> : v \in RequestedNames}
            \cup {<<v, w>> : v \in RequestedNames, w \in RequestedNames}

\* the arguments of a validate_download_request call
ValidationCall(dataset, time_bounds, variable_names) ==
    [op |-> "validate_download_request", dataset |-> dataset,
     time_bounds |-> time_bounds, variable_names |-> variable_names]

\* the arguments of a TimeBounds construction
TimeBoundsCall(start, end) == [op |-> "TimeBounds", start |-> start, end |-> end]

\* the arguments of a call of one of the three properties-file functions
PropertiesCall(op, folder, target_folder, spatial_bounds, time_bounds, variable_names) ==
    [op |-> op, folder |-> folder, target_folder |-> target_folder,
     spatial_bounds |-> spatial_bounds, time_bounds |-> time_bounds,
     variable_names |-> variable_names]

\* zampy.datasets.DATASETS: the datasets a recipe can name, with the
\* variables they offer and the period they cover (in day numbers)
DATASETS ==
    [name \in {"era5", "eth_canopy_height"} |->
        IF name = "era5"
        THEN [name |-> "era5", variable_names |-> <<"air_temperature">>,
              time_bounds |-> TimeBounds(0, MaxTime)]
        ELSE [name |-> "eth-canopy-height",
              variable_names |-> <<"height_of_vegetation",
                                   "height_of_vegetation_standard_deviation">>,
              time_bounds |-> TimeBounds(1, 2)]]

\* the recipes: one or two datasets (the keys of a dict, so all different),
\* each with the variables asked of it, and the period of the download
Recipes ==
    LET requests == {[name |-> n, variables |-> v] :
                        n \in {"era5", "eth_canopy_height", "era6"},
                        v \in {<<"air_temperature">>, <<"height_of_vegetation">>}}
    IN  {[op |-> "run", datasets |-> ds, timebounds |-> tb] :
            ds \in {<<x>> : x \in requests}
                    \cup {d \in {<<x, y>> : x \in requests, y \in requests} :
                                d[1].name # d[2].name},
            tb \in TimeBoundsSet}

\* the files a dataset downloads
DownloadFiles == {<<"download", "era5_2020-1", "nc">>, <<"download", "ETH_Map", "tif">>}

\* the arguments of a download_url or converter call, with the disk as it
\* was when the call was made
FileCall(op, file, overwrite, url_size, before) ==
    [op |-> op, file |-> file, overwrite |-> overwrite, url_size |-> url_size,
     before |-> before]

\* the method tokens a caller passes
Methods == {"flox", "esmf", "fake_method", ""}

NoBounds == SpatialBounds(NaN, NaN, NaN, NaN)

Call(op, data, spatial_bounds, resolution, method_given, method) ==
    [op |-> op, data |-> data, spatial_bounds |-> spatial_bounds,
     resolution |-> resolution, method_given |-> method_given, method |-> method]

NoCall == Call("", NoDataset, NoBounds, NaN, FALSE, "")

---------------------------------------------------------------------------
(* The caller: one call at a time                                          *)

Init ==
    /\ pc = "idle"
    /\ call = NoCall
    /\ out = Return(NoDataset)
    /\ trace = << >>
    /\ modules = {"zampy.utils.regrid"}
    /\ xesmf_installed \in BOOLEAN
    /\ box = NoBounds
    /\ heap = << >>
    /\ caught = ""
    /\ disk = << >>

CallInferResolution ==
    /\ pc = "idle"
    /\ \E lat \in InferLatAxes, lon \in InferLonAxes :
        LET dataset == MakeDataset(lat, lon, {})
        IN  /\ call' = Call("infer_resolution", dataset, NoBounds, NaN, FALSE, "")
            /\ out' = ReturnPair(infer_resolution(dataset))
    /\ trace' = << >>
    /\ pc' = "returned"
    /\ UNCHANGED <<disk, modules, xesmf_installed, box, heap, caught>>

CallGroupbyRegrid ==
    /\ pc = "idle"
    /\ \E data \in GroupbyDatasets, b \in BoundsSet, r \in GroupbyResolutions :
        /\ call' = Call("_groupby_regrid", data, b, r, FALSE, "")
        /\ out' = _groupby_regrid(data, b, r)
    /\ trace' = << >>
    /\ pc' = "returned"
    /\ UNCHANGED <<disk, modules, xesmf_installed, box, heap, caught>>

CallInterpRegrid ==
    /\ pc = "idle"
    /\ \E data \in InterpDatasets, b \in BoundsSet, r \in Resolutions :
        /\ call' = Call("_interp_regrid", data, b, r, FALSE, "")
        /\ out' = _interp_regrid(data, b, r)
    /\ trace' = << >>
    /\ pc' = "returned"
    /\ UNCHANGED <<disk, modules, xesmf_installed, box, heap, caught>>

CallInterpRegridTime ==
    /\ pc = "idle"
    /\ \E data \in InterpTimeDatasets, b \in BoundsSet, r \in Resolutions :
        /\ call' = Call("_interp_regrid", data, b, r, FALSE, "")
        /\ out' = _interp_regrid_time(data, b, r)
    /\ trace' = << >>
    /\ pc' = "returned"
    /\ UNCHANGED <<disk, modules, xesmf_installed, box, heap, caught>>

CallFloxRegrid ==
    /\ pc = "idle"
    /\ \E data \in FloxDatasets, b \in BoundsSet, r \in Resolutions :
        LET res == flox_regrid(data, b, r)
        IN  /\ call' = Call("flox_regrid", data, b, r, FALSE, "")
            /\ out' = res.out
            /\ trace' = res.trace
    /\ pc' = "returned"
    /\ UNCHANGED <<disk, modules, xesmf_installed, box, heap, caught>>

CallRegridData ==
    /\ pc = "idle"
    /\ \E data \in FacadeDatasets, b \in BoundsSet, r \in Resolutions,
          method_given \in BOOLEAN, m \in Methods :
        LET method == IF method_given THEN m ELSE ""
            res == regrid_data(data, b, r, regrid_data_method(method_given, method),
                               xesmf_installed, modules)
        IN  /\ call' = Call("regrid_data", data, b, r, method_given, method)
            /\ out' = res.out
            /\ trace' = res.trace
            /\ modules' = res.modules
    /\ pc' = "returned"
    /\ UNCHANGED <<disk, xesmf_installed, box, heap, caught>>

\* flox_regrid of a grid onto its own coordinates: the box is the grid's
\* extent and the target resolution the grid's spacing
CallFloxRegridMatching ==
    /\ pc = "idle"
    /\ \E data \in MatchingDatasets :
        LET b == ExtentOf(data)
            r == RSub(data.latitude[2], data.latitude[1])
            res == flox_regrid(data, b, r)
        IN  /\ call' = Call("flox_regrid", data, b, r, FALSE, "")
            /\ out' = res.out
            /\ trace' = res.trace
    /\ pc' = "returned"
    /\ UNCHANGED <<disk, modules, xesmf_installed, box, heap, caught>>

\* SpatialBounds(north, east, south, west): the dataclass stores the four
\* fields and runs __post_init__; the caller holds the object only when the
\* construction did not raise
ConstructSpatialBounds ==
    /\ pc = "idle"
    /\ \E n \in BoxCoords, e \in BoxCoords, s \in BoxCoords, w \in BoxCoords :
        LET b == SpatialBounds(n, e, s, w)
        IN  /\ call' = Call("SpatialBounds", NoDataset, b, NaN, FALSE, "")
            /\ out' = IF post_init(b) = << >> THEN Return(NoDataset)
                       ELSE Raise("ValueError", post_init(b))
            /\ box' = IF post_init(b) = << >> THEN b ELSE box
    /\ trace' = << >>
    /\ pc' = "returned"
    /\ UNCHANGED <<disk, modules, xesmf_installed, heap, caught>>

\* bounds.<field> = value: the dataclass is not frozen, so the assignment
\* stores the value, and __post_init__ does not run again
AssignBoundsField ==
    /\ pc = "idle"
    /\ box # NoBounds
    /\ \E field \in {"north", "east", "south", "west"}, v \in BoxCoords :
        box' = [box EXCEPT ![field] = v]
    /\ UNCHANGED <<disk, pc, call, out, trace, modules, xesmf_installed, heap, caught>>

\* _interp_regrid with the object the caller holds
CallInterpRegridBox ==
    /\ pc = "idle"
    /\ box # NoBounds
    /\ \E data \in BoxDatasets, r \in {R(1)} :
        /\ call' = Call("_interp_regrid", data, box, r, FALSE, "")
        /\ out' = _interp_regrid(data, box, r)
    /\ trace' = << >>
    /\ pc' = "returned"
    /\ UNCHANGED <<disk, modules, xesmf_installed, box, heap, caught>>

\* regrid_data with the adaptive method and a resolution that is zero or
\* negative: the facade and the dispatcher pass the value on as it is
CallRegridDataNonPositive ==
    /\ pc = "idle"
    /\ \E data \in FacadeDatasets, b \in BoundsSet, r \in NonPositiveResolutions :
        LET res == regrid_data(data, b, r, "flox", xesmf_installed, modules)
        IN  /\ call' = Call("regrid_data", data, b, r, TRUE, "flox")
            /\ out' = res.out
            /\ trace' = res.trace
            /\ modules' = res.modules
    /\ pc' = "returned"
    /\ UNCHANGED <<disk, xesmf_installed, box, heap, caught>>

\* a call of one of the regrid functions, its Dataset objects followed
CallWithObjects ==
    /\ pc = "idle"
    /\ \E op \in RegridOps, data \in FacadeDatasets, b \in BoundsSet, r \in Resolutions :
        LET res == call_objects(op, data, b, r)
        IN  /\ call' = Call(op, data, b, r, op = "regrid_data", 
                            IF op = "regrid_data" THEN "flox" ELSE "")
            /\ out' = res.out
            /\ heap' = res.heap
    /\ trace' = << >>
    /\ pc' = "returned"
    /\ UNCHANGED <<disk, modules, xesmf_installed, box, caught>>

CallValidateDownloadRequest ==
    /\ pc = "idle"
    /\ \E dataset \in CatalogDatasets, time_bounds \in TimeBoundsSet,
          variable_names \in VariableRequests :
        /\ call' = ValidationCall(dataset, time_bounds, variable_names)
        /\ out' = validate_download_request(dataset, time_bounds, variable_names)
    /\ trace' = << >>
    /\ pc' = "returned"
    /\ UNCHANGED <<disk, modules, xesmf_installed, box, heap, caught>>

\* TimeBounds(start, end): the dataclass stores the two fields and runs
\* __post_init__
ConstructTimeBounds ==
    /\ pc = "idle"
    /\ \E start \in DateTimes, end \in DateTimes :
        /\ call' = TimeBoundsCall(start, end)
        /\ out' = IF TimeBounds_post_init(TimeBounds(start, end)) = << >>
                   THEN Return(NoDataset)
                   ELSE Raise("ValueError", TimeBounds_post_init(TimeBounds(start, end)))
    /\ trace' = << >>
    /\ pc' = "returned"
    /\ UNCHANGED <<disk, modules, xesmf_installed, box, heap, caught>>

\* write_properties_file, called by a dataset's download
CallWriteProperties ==
    /\ pc = "idle"
    /\ \E spatial_bounds \in PropertiesBounds, time_bounds \in PropertiesTimeBounds,
          variable_names \in PropertiesNames :
        /\ call' = PropertiesCall("write_properties_file", "download", "",
                                  spatial_bounds, time_bounds, variable_names)
        /\ disk' = write_properties_file(disk, "download", spatial_bounds, time_bounds,
                                         variable_names)
    /\ out' = Return(NoDataset)
    /\ trace' = << >>
    /\ pc' = "returned"
    /\ UNCHANGED <<modules, xesmf_installed, box, heap, caught>>

CallReadProperties ==
    /\ pc = "idle"
    /\ \E folder \in Folders :
        /\ call' = PropertiesCall("read_properties_file", folder, "",
                                  NoBounds, TimeBounds(0, 0), << >>)
        /\ out' = read_properties_file(disk, folder)
    /\ trace' = << >>
    /\ pc' = "returned"
    /\ UNCHANGED <<disk, modules, xesmf_installed, box, heap, caught>>

\* copy_properties_file, called by a dataset's ingest
CallCopyProperties ==
    /\ pc = "idle"
    /\ \E source \in Folders, target \in Folders :
        LET res == copy_properties_file(disk, source, target)
        IN  /\ call' = PropertiesCall("copy_properties_file", source, target,
                                      NoBounds, TimeBounds(0, 0), << >>)
            /\ out' = res.out
            /\ disk' = res.disk
    /\ trace' = << >>
    /\ pc' = "returned"
    /\ UNCHANGED <<modules, xesmf_installed, box, heap, caught>>

\* RecipeManager.run is entered: the first loop starts
StartRun ==
    /\ pc = "idle"
    /\ \E recipe \in Recipes : call' = recipe
    /\ out' = Return(NoDataset)
    /\ trace' = << >>
    /\ pc' = "validate"
    /\ UNCHANGED <<disk, modules, xesmf_installed, box, heap, caught>>

\* a faulty variant: the download starts once the first dataset is validated
RunValidateFirstOnly ==
    /\ pc = "validate"
    /\ LET request == call.datasets[1]
           res == validate_download_request(DATASETS[request.name], call.timebounds,
                                            request.variables)
       IN  IF request.name \notin DOMAIN DATASETS
           THEN /\ out' = Raise("KeyError", <<request.name>>)
                /\ pc' = "returned"
                /\ trace' = trace
           ELSE IF ~res.ok
           THEN /\ out' = res
                /\ pc' = "returned"
                /\ trace' = trace
           ELSE /\ out' = out
                /\ pc' = "download"
                /\ trace' = Append(trace, Step("validate_download_request", request.name))
    /\ UNCHANGED <<disk, call, modules, xesmf_installed, box, heap, caught>>

\* run, lines 97-107: one pass of the first loop.  The class is looked up
\* (KeyError for a name DATASETS does not have) and the request validated;
\* an error ends run, and after the last dataset the second loop starts.
RunValidate ==
    /\ pc = "validate"
    /\ LET i == Len(trace) + 1
           request == call.datasets[i]
           res == validate_download_request(DATASETS[request.name], call.timebounds,
                                            request.variables)
       IN  IF request.name \notin DOMAIN DATASETS
           THEN /\ out' = Raise("KeyError", <<request.name>>)
                /\ pc' = "returned"
                /\ trace' = trace
           ELSE IF ~res.ok
           THEN /\ out' = res
                /\ pc' = "returned"
                /\ trace' = trace
           ELSE /\ out' = out
                /\ pc' = IF i = Len(call.datasets) THEN "download" ELSE "validate"
                /\ trace' = Append(trace, Step("validate_download_request", request.name))
    /\ UNCHANGED <<disk, call, modules, xesmf_installed, box, heap, caught>>

\* run, lines 109-144: one statement of the second loop for the dataset at
\* hand: download, ingest, load (with the conversion and resampling) or
\* to_netcdf.  A download can fail, which ends run.
RunDatasetStep ==
    /\ pc \in {"download", "ingest", "load", "to_netcdf"}
    /\ LET done == Len(SelectSeq(trace, LAMBDA e : e.fn = "to_netcdf"))
           request == call.datasets[done + 1]
       IN  \E fails \in BOOLEAN :
            IF pc = "download" /\ fails
            THEN /\ out' = Raise("RuntimeError", <<request.name>>)
                 /\ pc' = "returned"
                 /\ trace' = trace
            ELSE /\ ~fails
                 /\ out' = out
                 /\ trace' = Append(trace, Step(pc, request.name))
                 /\ pc' = IF pc = "download" THEN "ingest"
                          ELSE IF pc = "ingest" THEN "load"
                          ELSE IF pc = "load" THEN "to_netcdf"
                          ELSE IF done + 1 = Len(call.datasets) THEN "returned"
                          ELSE "download"
    /\ UNCHANGED <<disk, call, modules, xesmf_installed, box, heap, caught>>

\* download_url: the server reports url_size bytes; the transfer delivers
\* them all or breaks off after `received` of them
CallDownloadUrl ==
    /\ pc = "idle"
    /\ \E fpath \in DownloadFiles, overwrite \in BOOLEAN,
          url_size \in 0..MaxSize, received \in 0..MaxSize :
        /\ received <= url_size
        /\ LET res == download_url(disk, url_size, fpath, overwrite, received)
           IN  /\ call' = FileCall("download_url", fpath, overwrite, url_size, disk)
               /\ out' = res.out
               /\ trace' = res.trace
               /\ disk' = res.disk
    /\ pc' = "returned"
    /\ UNCHANGED <<modules, xesmf_installed, box, heap, caught>>

\* one of the three converters, called by ingest for a downloaded file
CallConvert ==
    /\ pc = "idle"
    /\ \E converter \in {"convert_to_zampy", "convert_tiff_to_netcdf",
                          "convert_raw_dem_to_netcdf"},
          file \in DownloadFiles \cap DOMAIN disk, overwrite \in BOOLEAN :
        LET res == convert(converter, disk, "ingest", file, overwrite)
        IN  /\ call' = FileCall(converter, file, overwrite, 0, disk)
            /\ trace' = res.trace
            /\ disk' = res.disk
    /\ out' = Return(NoDataset)
    /\ pc' = "returned"
    /\ UNCHANGED <<modules, xesmf_installed, box, heap, caught>>

\* the caller takes the result (or catches the error) and goes on
Continue ==
    /\ pc = "returned"
    /\ pc' = "idle"
    /\ call' = NoCall
    /\ out' = Return(NoDataset)
    /\ trace' = << >>
    /\ heap' = << >>
    /\ UNCHANGED <<disk, modules, xesmf_installed, box, caught>>

\* the caller catches the error of the call, if it raised one, remembers it
\* and goes on
CatchAndContinue ==
    /\ pc = "returned"
    /\ pc' = "idle"
    /\ caught' = out.error
    /\ call' = NoCall
    /\ out' = Return(NoDataset)
    /\ trace' = << >>
    /\ heap' = << >>
    /\ UNCHANGED <<disk, modules, xesmf_installed, box>>

\* calls of the facade and of the dispatcher
Next ==
    \/ CallFloxRegrid
    \/ CallRegridData
    \/ Continue

Spec == Init /\ [][Next]_vars

\* direct calls of infer_resolution
NextInfer ==
    \/ CallInferResolution
    \/ Continue

SpecInfer == Init /\ [][NextInfer]_vars

\* direct calls of the aggregator
NextGroupby ==
    \/ CallGroupbyRegrid
    \/ Continue

SpecGroupby == Init /\ [][NextGroupby]_vars

\* direct calls of the interpolator
NextInterp ==
    \/ CallInterpRegrid
    \/ CallInterpRegridTime
    \/ Continue

SpecInterp == Init /\ [][NextInterp]_vars

\* calls of the dispatcher with a grid that lies on the target grid
NextMatching ==
    \/ CallFloxRegridMatching
    \/ Continue

SpecMatching == Init /\ [][NextMatching]_vars

\* construction and use of SpatialBounds objects
NextBounds ==
    \/ ConstructSpatialBounds
    \/ AssignBoundsField
    \/ CallInterpRegridBox
    \/ Continue

SpecBounds == Init /\ [][NextBounds]_vars

\* calls of the facade with a resolution outside the input contract
NextNonPositive ==
    \/ CallRegridDataNonPositive
    \/ Continue

SpecNonPositive == Init /\ [][NextNonPositive]_vars

\* calls whose Dataset objects are followed
NextObjects ==
    \/ CallWithObjects
    \/ Continue

SpecObjects == Init /\ [][NextObjects]_vars

\* sequences of facade calls by a caller that catches the errors
NextHistory ==
    \/ CallRegridData
    \/ CatchAndContinue

SpecHistory == Init /\ [][NextHistory]_vars

\* construction of time bounds and validation of download requests
NextValidation ==
    \/ ConstructTimeBounds
    \/ CallValidateDownloadRequest
    \/ Continue

SpecValidation == Init /\ [][NextValidation]_vars

\* the properties file of the download and ingest folders
NextProperties ==
    \/ CallWriteProperties
    \/ CallReadProperties
    \/ CallCopyProperties
    \/ Continue

SpecProperties == Init /\ [][NextProperties]_vars

\* runs of a recipe, statement by statement
NextRecipe ==
    \/ StartRun
    \/ RunValidate
    \/ RunDatasetStep
    \/ Continue

SpecRecipe == Init /\ [][NextRecipe]_vars

\* downloads and conversions of files
NextFiles ==
    \/ CallDownloadUrl
    \/ CallConvert
    \/ Continue

SpecFiles == Init /\ [][NextFiles]_vars

---------------------------------------------------------------------------
(* Properties                                                              *)

Returned(op) == pc = "returned" /\ call.op = op

\* a call that goes through the dispatcher: flox_regrid itself, or
\* regrid_data with the token "flox"
Dispatched ==
    \/ Returned("flox_regrid")
    \/ Returned("regrid_data") /\ call.method_given /\ call.method = "flox"

\* the regridders the last call ran, in order
Regridders ==
    LET ran == SelectSeq(trace, LAMBDA e : e.fn \in {"_groupby_regrid", "_interp_regrid"})
    IN  [k \in DOMAIN ran |-> ran[k].fn]

PureAggregation == Regridders = <<"_groupby_regrid">>
PureInterpolation == Regridders = <<"_interp_regrid">>
Hybrid == Regridders = <<"_interp_regrid", "_groupby_regrid">>

Smaller(x, y) == IF RLe(x, y) THEN x ELSE y

Positive(x) == RGt(x, R(0))

\* x is k * r for an integer k >= 0
Multiple(x, r) == \E k \in 0..Floor(RDiv(x, r)) : x = RMul(R(k), r)

ExtentsAreMultiples(b, r) ==
    /\ Multiple(RSub(b.north, b.south), r)
    /\ Multiple(RSub(b.east, b.west), r)

Degenerate(b) == b.north = b.south \/ b.east = b.west

TwoSamplesPerAxis(data) == Len(data.latitude) >= 2 /\ Len(data.longitude) >= 2

\* the returned coordinates are the inclusive sequences south..north, west..east
InclusiveCoordinates ==
    LET b == call.spatial_bounds
        r == call.resolution
        lat == out.dataset.latitude
        lon == out.dataset.longitude
    IN  /\ out.ok
        /\ Len(lat) >= 1 /\ Len(lon) >= 1
        /\ \A k \in DOMAIN lat : lat[k] = RAdd(b.south, RMul(R(k - 1), r))
        /\ \A k \in DOMAIN lon : lon[k] = RAdd(b.west, RMul(R(k - 1), r))
        /\ lat[Len(lat)] = b.north
        /\ lon[Len(lon)] = b.east

\* C1: with positive inferred resolutions and s the smaller of the two, the
\* dispatcher runs exactly one strategy: pure aggregation iff t >= 4s, pure
\* interpolation iff t <= s/4, the hybrid iff s/4 < t < 4s.
C1_StrategySelection ==
    Dispatched =>
        LET res == infer_resolution(call.data)
            s == Smaller(res[1], res[2])
            t == call.resolution
        IN  (Positive(res[1]) /\ Positive(res[2])) =>
                /\ PureAggregation <=> RGe(t, RMul(R(4), s))
                /\ PureInterpolation <=> RLe(RMul(R(4), t), s)
                /\ Hybrid <=> (RLt(s, RMul(R(4), t)) /\ RLt(t, RMul(R(4), s)))
                /\ Cardinality({x \in {"a", "i", "h"} :
                        \/ x = "a" /\ PureAggregation
                        \/ x = "i" /\ PureInterpolation
                        \/ x = "h" /\ Hybrid}) = 1

\* a call on the boundary t = 4s, with different axis resolutions
C1_Witness ==
    /\ Dispatched
    /\ LET res == infer_resolution(call.data)
       IN  /\ Positive(res[1]) /\ RLt(res[1], res[2])
           /\ call.resolution = RMul(R(4), res[1])
    /\ PureAggregation

\* C2: regrid_data with an unrecognised method token raises ValueError, the
\* message holds the token, and no engine or backend is called.
C2_UnknownMethod ==
    (Returned("regrid_data") /\ call.method_given /\ call.method \notin {"flox", "esmf"}) =>
        /\ ~out.ok
        /\ out.error = "ValueError"
        /\ \E k \in DOMAIN out.message : out.message[k] = call.method
        /\ trace = << >>

C2_Witness ==
    /\ Returned("regrid_data")
    /\ call.method_given /\ call.method = "fake_method"
    /\ out.error = "ValueError"

\* C3: regrid_data with the method omitted returns what flox_regrid returns
\* for the same grid, bounds and resolution, through flox_regrid and without
\* the conservative backend.
C3_DefaultIsAdaptive ==
    (Returned("regrid_data") /\ ~call.method_given) =>
        /\ out = flox_regrid(call.data, call.spatial_bounds, call.resolution).out
        /\ Len(trace) >= 1 /\ trace[1].fn = "flox_regrid"
        /\ \A k \in DOMAIN trace : trace[k].fn \notin {"assert_xesmf_available", "xesfm_regrid"}

C3_Witness ==
    /\ Returned("regrid_data") /\ ~call.method_given
    /\ xesmf_installed
    /\ out.ok /\ Hybrid

C5_Original ==
    (Returned("_groupby_regrid") /\ TwoSamplesPerAxis(call.data)) => InclusiveCoordinates

\* C5 as amended: when north - south and east - west are integer multiples of
\* the resolution and the source grid has two samples or more per axis, the
\* aggregator returns the inclusive sequences south..north and west..east.
C5_AggregatorCoordinates ==
    (/\ Returned("_groupby_regrid")
     /\ TwoSamplesPerAxis(call.data)
     /\ ExtentsAreMultiples(call.spatial_bounds, call.resolution)) => InclusiveCoordinates

\* multiples, several bins, and a source grid that does not reach the north
C5_Witness ==
    /\ Returned("_groupby_regrid")
    /\ TwoSamplesPerAxis(call.data)
    /\ ExtentsAreMultiples(call.spatial_bounds, call.resolution)
    /\ out.ok /\ Len(out.dataset.latitude) >= 3
    /\ \A a \in DOMAIN call.data.latitude :
            RLt(call.data.latitude[a], call.spatial_bounds.north)

\* C6: the interpolator returns the latitudes south + k * resolution,
\* k = 0, 1, ..., all of those below north + resolution and no other, and
\* likewise the longitudes from west.
C6_InterpolatorCoordinates ==
    Returned("_interp_regrid") =>
        LET b == call.spatial_bounds
            r == call.resolution
            lat == out.dataset.latitude
            lon == out.dataset.longitude
        IN  /\ out.ok
            /\ \A k \in DOMAIN lat :
                    /\ lat[k] = RAdd(b.south, RMul(R(k - 1), r))
                    /\ RLt(lat[k], RAdd(b.north, r))
            /\ RGe(RAdd(b.south, RMul(R(Len(lat)), r)), RAdd(b.north, r))
            /\ \A k \in DOMAIN lon :
                    /\ lon[k] = RAdd(b.west, RMul(R(k - 1), r))
                    /\ RLt(lon[k], RAdd(b.east, r))
            /\ RGe(RAdd(b.west, RMul(R(Len(lon)), r)), RAdd(b.east, r))

\* an extent that is no multiple of the resolution: the last latitude is
\* beyond north
C6_Witness ==
    /\ Returned("_interp_regrid") /\ out.ok
    /\ Len(out.dataset.latitude) >= 2
    /\ RGt(out.dataset.latitude[Len(out.dataset.latitude)], call.spatial_bounds.north)

Contributors(c) ==
    GroupMembers(call.data,
        groupby_bins(call.spatial_bounds.south, call.spatial_bounds.north, call.resolution),
        groupby_bins(call.spatial_bounds.west, call.spatial_bounds.east, call.resolution),
        c[1], c[2])

ValidContributors(c) == {m \in Contributors(c) : ~IsNaN(call.data.values[m])}

MinCount == groupby_min_points(call.data, call.resolution)

MeanOf(vals, S) == RDiv(SumOver(vals, S), R(Cardinality(S)))

\* C8: a target cell with fewer valid contributors than min_count is NaN, also
\* when some contributors are valid; a cell with at least min_count valid
\* contributors is the mean of the valid ones only (NaN when there is none).
C8_MinCountMasking ==
    (Returned("_groupby_regrid") /\ out.ok) =>
        \A c \in Cells(out.dataset) :
            LET valid == ValidContributors(c)
            IN  /\ Cardinality(valid) < MinCount => IsNaN(out.dataset.values[c])
                /\ valid = {} => IsNaN(out.dataset.values[c])
                /\ (Cardinality(valid) >= MinCount /\ valid # {}) =>
                        out.dataset.values[c] = MeanOf(call.data.values, valid)

\* one cell is masked although it has a valid contributor, another is the mean
\* of its valid contributors while one contributor is NaN
C8_Witness ==
    /\ Returned("_groupby_regrid") /\ out.ok
    /\ \E c \in Cells(out.dataset) :
        /\ ValidContributors(c) # {}
        /\ Cardinality(ValidContributors(c)) < MinCount
        /\ IsNaN(out.dataset.values[c])
    /\ \E c \in Cells(out.dataset) :
        /\ Cardinality(ValidContributors(c)) >= MinCount
        /\ ValidContributors(c) # Contributors(c)
        /\ ~IsNaN(out.dataset.values[c])

\* C9: whatever part of the box the source grid covers, the aggregator
\* returns a grid with round((north-south)/res)+1 latitudes and
\* round((east-west)/res)+1 longitudes, where every cell without enough valid
\* source cells is NaN.
C9_CoverageIsNoError ==
    (Returned("_groupby_regrid") /\ TwoSamplesPerAxis(call.data)) =>
        LET b == call.spatial_bounds
            r == call.resolution
        IN  /\ out.ok
            /\ Len(out.dataset.latitude) = Round(RDiv(RSub(b.north, b.south), r)) + 1
            /\ Len(out.dataset.longitude) = Round(RDiv(RSub(b.east, b.west), r)) + 1
            /\ DOMAIN out.dataset.values = Cells(out.dataset)
            /\ \A c \in Cells(out.dataset) :
                (ValidContributors(c) = {} \/ Cardinality(ValidContributors(c)) < MinCount)
                    => IsNaN(out.dataset.values[c])

\* the source grid covers no target cell at all
C9_Witness ==
    /\ Returned("_groupby_regrid") /\ TwoSamplesPerAxis(call.data)
    /\ out.ok
    /\ \A c \in Cells(out.dataset) : Contributors(c) = {}

\* the axis has `least` samples or more, spaced by d except, at most, for the
\* first or the last cell
EdgeIrregular(axis, d, least) ==
    /\ Len(axis) >= least
    /\ LET df == Diff(axis)
       IN  \/ \A k \in 1..(Len(df) - 1) : df[k] = d
           \/ \A k \in 2..Len(df) : df[k] = d

Spacings(axis) == {Diff(axis)[k] : k \in DOMAIN Diff(axis)}

\* C10 as stated: for an axis of three samples or more, spaced by d except
\* for one edge cell, infer_resolution returns d.
C10_Original ==
    Returned("infer_resolution") =>
        /\ \A d \in Spacings(call.data.latitude) :
                EdgeIrregular(call.data.latitude, d, 3) => out.resolution[1] = d
        /\ \A d \in Spacings(call.data.longitude) :
                EdgeIrregular(call.data.longitude, d, 3) => out.resolution[2] = d

\* C10 as amended: for an axis of four samples or more, spaced by d except
\* for one edge cell, infer_resolution returns d.
C10_MedianResistsEdgeCell ==
    Returned("infer_resolution") =>
        /\ \A d \in Spacings(call.data.latitude) :
                EdgeIrregular(call.data.latitude, d, 4) => out.resolution[1] = d
        /\ \A d \in Spacings(call.data.longitude) :
                EdgeIrregular(call.data.longitude, d, 4) => out.resolution[2] = d

\* both axes have an irregular edge cell
C10_Witness ==
    /\ Returned("infer_resolution")
    /\ \E d \in Spacings(call.data.latitude) :
        /\ EdgeIrregular(call.data.latitude, d, 4)
        /\ Spacings(call.data.latitude) # {d}
        /\ out.resolution[1] = d
    /\ \E d \in Spacings(call.data.longitude) :
        /\ EdgeIrregular(call.data.longitude, d, 4)
        /\ Spacings(call.data.longitude) # {d}
        /\ out.resolution[2] = d

\* the axis has two samples or more and is strictly ascending or strictly
\* descending
Monotone(axis) ==
    /\ Len(axis) >= 2
    /\ \/ \A k \in 1..(Len(axis) - 1) : RLt(axis[k], axis[k + 1])
       \/ \A k \in 1..(Len(axis) - 1) : RGt(axis[k], axis[k + 1])

\* C11: for a grid whose latitude and longitude axes are sorted (ascending or
\* descending) with two samples or more each, infer_resolution returns two
\* strictly positive values.
C11_Original ==
    (Returned("infer_resolution")
        /\ Monotone(call.data.latitude) /\ Monotone(call.data.longitude)) =>
        /\ out.ok
        /\ Positive(out.resolution[1])
        /\ Positive(out.resolution[2])

\* the last call regridded a grid onto its own coordinates
OnTargetGrid ==
    /\ Returned("flox_regrid")
    /\ call.spatial_bounds = ExtentOf(call.data)
    /\ call.resolution = RSub(call.data.latitude[2], call.data.latitude[1])
    /\ call.resolution = RSub(call.data.longitude[2], call.data.longitude[1])

\* C12: a grid that lies on the target grid, regridded through the hybrid
\* path, comes back with the original value at every cell where the source
\* holds a value.
C12_Original ==
    (OnTargetGrid /\ Hybrid) =>
        /\ out.ok
        /\ \A c \in Cells(call.data) :
            ~IsNaN(call.data.values[c]) =>
                /\ c \in DOMAIN out.dataset.values
                /\ out.dataset.values[c] = call.data.values[c]

Constructed == Returned("SpatialBounds")

\* C13: SpatialBounds(north, east, south, west) raises ValueError iff
\* south > north or west > east; boxes with south = north or west = east are
\* accepted; when both orders are violated the north/south message is raised.
C13_ConstructionError ==
    Constructed =>
        LET b == call.spatial_bounds
        IN  /\ ~out.ok <=> (RGt(b.south, b.north) \/ RGt(b.west, b.east))
            /\ ~out.ok => out.error = "ValueError"
            /\ out.ok => box = b
            /\ (RGt(b.south, b.north) /\ RGt(b.west, b.east)) =>
                    out.message = NorthSouthMessage
            /\ (RGt(b.west, b.east) /\ ~RGt(b.south, b.north)) =>
                    out.message = EastWestMessage

\* both orders are violated
C13_Witness ==
    /\ Constructed
    /\ RGt(call.spatial_bounds.south, call.spatial_bounds.north)
    /\ RGt(call.spatial_bounds.west, call.spatial_bounds.east)
    /\ out.error = "ValueError" /\ out.message = NorthSouthMessage

\* C14: a SpatialBounds object never changes after its construction, so
\* south <= north and west <= east hold for the object the caller holds and
\* for the bounds of every regrid call.
C14_Original ==
    /\ box # NoBounds => ValidBounds(box)
    /\ Returned("_interp_regrid") => ValidBounds(call.spatial_bounds)

\* C15: a regrid_data call with a zero or negative resolution is rejected
\* with an error, and neither the aggregator nor the interpolator is called.
C15_Original ==
    (Returned("regrid_data") /\ RLe(call.resolution, R(0))) =>
        /\ ~out.ok
        /\ Regridders = << >>

\* what the value-level definitions give for the last call
ValueOutcome ==
    IF call.op = "_groupby_regrid"
    THEN _groupby_regrid(call.data, call.spatial_bounds, call.resolution)
    ELSE IF call.op = "_interp_regrid"
    THEN _interp_regrid(call.data, call.spatial_bounds, call.resolution)
    ELSE flox_regrid(call.data, call.spatial_bounds, call.resolution).out

\* C16: after a call of regrid_data, flox_regrid, _groupby_regrid or
\* _interp_regrid the input grid holds the coordinates and values it held
\* before, on every path; a returned grid is an object made by the call, and
\* the coordinate rewriting has gone to that grid.
C16_InputUnchanged ==
    (pc = "returned" /\ heap # << >>) =>
        /\ heap[1] = call.data
        /\ out.ok => (Len(heap) >= 2 /\ heap[Len(heap)] = out.dataset)
        /\ out = ValueOutcome

\* a hybrid call: two regridders ran and made objects
C16_Witness ==
    /\ pc = "returned" /\ heap # << >>
    /\ call.op = "flox_regrid" /\ out.ok
    /\ Len(heap) = 4
    /\ heap[1] = call.data /\ heap[2] # call.data
    /\ Len(out.dataset.latitude) >= 2

\* the same call made first thing after the import of zampy.utils.regrid
FirstCall ==
    regrid_data(call.data, call.spatial_bounds, call.resolution,
                regrid_data_method(call.method_given, call.method),
                xesmf_installed, {"zampy.utils.regrid"})

HasTime(ds) == "time" \in DOMAIN ds

\* the indices of the dimension that is not spatial (one index when the
\* dataset has no such dimension)
TimeIndex(ds) == IF HasTime(ds) THEN DOMAIN ds.time ELSE {1}

ValueAt(ds, t, i, j) == IF HasTime(ds) THEN ds.values[<<t, i, j>>] ELSE ds.values[<<i, j>>]

\* x lies within the range of the axis
InRange(x, axis) ==
    /\ \E a \in DOMAIN axis : RLe(axis[a], x)
    /\ \E a \in DOMAIN axis : RGe(axis[a], x)

\* the source sample below x: the greatest coordinate smaller than x, the
\* smallest coordinate when x is the smallest itself
LowerIdx(x, axis) ==
    LET below == {a \in DOMAIN axis : RLt(axis[a], x)}
    IN  IF below = {}
        THEN CHOOSE a \in DOMAIN axis : \A e \in DOMAIN axis : RLe(axis[a], axis[e])
        ELSE CHOOSE a \in below : \A e \in below : RGe(axis[a], axis[e])

\* the source sample that follows LowerIdx in ascending order
UpperIdx(x, axis) ==
    LET above == {a \in DOMAIN axis : RGt(axis[a], axis[LowerIdx(x, axis)])}
    IN  CHOOSE a \in above : \A e \in above : RLe(axis[a], axis[e])

\* the straight line through (xa, ya) and (xb, yb), at x
Lin(x, xa, xb, ya, yb) == RAdd(ya, RMul(RDiv(RSub(yb, ya), RSub(xb, xa)), RSub(x, xa)))

\* the linear interpolation of the four bracketing source samples of the
\* target point (la, lo) at time index t
Bilinear(data, t, la, lo) ==
    LET a == LowerIdx(la, data.latitude)
        b == UpperIdx(la, data.latitude)
        c == LowerIdx(lo, data.longitude)
        d == UpperIdx(lo, data.longitude)
        at_c == Lin(la, data.latitude[a], data.latitude[b],
                    ValueAt(data, t, a, c), ValueAt(data, t, b, c))
        at_d == Lin(la, data.latitude[a], data.latitude[b],
                    ValueAt(data, t, a, d), ValueAt(data, t, b, d))
    IN  Lin(lo, data.longitude[c], data.longitude[d], at_c, at_d)

BracketValid(data, t, la, lo) ==
    \A a \in {LowerIdx(la, data.latitude), UpperIdx(la, data.latitude)},
       c \in {LowerIdx(lo, data.longitude), UpperIdx(lo, data.longitude)} :
        ~IsNaN(ValueAt(data, t, a, c))

\* the part of C18 that does not depend on missing source values: outside the
\* source range the result is NaN, inside it the linear interpolation of the
\* bracket, and the other dimension is carried over
InterpolatesWithinRange ==
    LET data == call.data
        res == out.dataset
    IN  /\ out.ok
        /\ HasTime(res) = HasTime(data)
        /\ HasTime(data) => res.time = data.time
        /\ \A t \in TimeIndex(data), i \in DOMAIN res.latitude, j \in DOMAIN res.longitude :
            LET la == res.latitude[i]
                lo == res.longitude[j]
            IN  IF InRange(la, data.latitude) /\ InRange(lo, data.longitude)
                THEN ValueAt(res, t, i, j) = Bilinear(data, t, la, lo)
                ELSE IsNaN(ValueAt(res, t, i, j))

\* C18 as stated: outside the source range NaN, inside it the linear
\* interpolation of the bracketing samples, the source value itself where the
\* target point is a source point, the other dimension unchanged.
C18_Original ==
    Returned("_interp_regrid") =>
        /\ InterpolatesWithinRange
        /\ \A t \in TimeIndex(call.data),
              i \in DOMAIN out.dataset.latitude, j \in DOMAIN out.dataset.longitude,
              a \in DOMAIN call.data.latitude, c \in DOMAIN call.data.longitude :
            (/\ out.dataset.latitude[i] = call.data.latitude[a]
             /\ out.dataset.longitude[j] = call.data.longitude[c]) =>
                ValueAt(out.dataset, t, i, j) = ValueAt(call.data, t, a, c)

\* C18 as amended: as stated, but a target point that is a source point has
\* the source value only when the four samples of its bracket hold a value;
\* a missing sample in the bracket makes the result missing.
C18_InterpolatorValues ==
    Returned("_interp_regrid") =>
        /\ InterpolatesWithinRange
        /\ \A t \in TimeIndex(call.data),
              i \in DOMAIN out.dataset.latitude, j \in DOMAIN out.dataset.longitude :
            LET la == out.dataset.latitude[i]
                lo == out.dataset.longitude[j]
            IN  (InRange(la, call.data.latitude) /\ InRange(lo, call.data.longitude)) =>
                    /\ ~BracketValid(call.data, t, la, lo) =>
                            IsNaN(ValueAt(out.dataset, t, i, j))
                    /\ BracketValid(call.data, t, la, lo) =>
                        \A a \in DOMAIN call.data.latitude, c \in DOMAIN call.data.longitude :
                            (la = call.data.latitude[a] /\ lo = call.data.longitude[c]) =>
                                ValueAt(out.dataset, t, i, j) = ValueAt(call.data, t, a, c)

\* a dataset with a time dimension and a missing cell: one target point lies
\* outside the source range, one lies between source points and has a value,
\* and one is a source point that holds a value but comes out missing
C18_Witness ==
    /\ Returned("_interp_regrid") /\ out.ok /\ HasTime(call.data)
    /\ \E i \in DOMAIN out.dataset.latitude :
            ~InRange(out.dataset.latitude[i], call.data.latitude)
    /\ \E t \in TimeIndex(call.data),
          i \in DOMAIN out.dataset.latitude, j \in DOMAIN out.dataset.longitude :
        /\ \A a \in DOMAIN call.data.latitude : out.dataset.latitude[i] # call.data.latitude[a]
        /\ ~IsNaN(ValueAt(out.dataset, t, i, j))
    /\ \E t \in TimeIndex(call.data),
          i \in DOMAIN out.dataset.latitude, j \in DOMAIN out.dataset.longitude,
          a \in DOMAIN call.data.latitude, c \in DOMAIN call.data.longitude :
        /\ out.dataset.latitude[i] = call.data.latitude[a]
        /\ out.dataset.longitude[j] = call.data.longitude[c]
        /\ ~IsNaN(ValueAt(call.data, t, a, c))
        /\ IsNaN(ValueAt(out.dataset, t, i, j))

ConservativeGrid ==
    /\ Returned("regrid_data")
    /\ call.method_given /\ call.method = "esmf"
    /\ out.ok

\* what the adaptive engine returns for the arguments of the last call
AdaptiveOutcome == flox_regrid(call.data, call.spatial_bounds, call.resolution).out

UnknownVariable ==
    \E k \in DOMAIN call.variable_names :
        \A v \in DOMAIN call.dataset.variable_names :
            call.dataset.variable_names[v] # call.variable_names[k]

StartUncovered == call.dataset.time_bounds.start > call.time_bounds.start
EndUncovered == call.dataset.time_bounds.end < call.time_bounds.end

Names(message, text) == \E k \in DOMAIN message : message[k][1] = text

\* C20: validate_download_request raises InvalidVariableError iff a requested
\* variable is not one of the dataset's, and otherwise InvalidTimeBoundsError
\* iff the dataset starts after the requested start or ends before the
\* requested end; the variables are checked first, and with both ends
\* uncovered the one message names both.
C20_ValidationOrder ==
    Returned("validate_download_request") =>
        /\ out.error = "InvalidVariableError" <=> UnknownVariable
        /\ out.error = "InvalidTimeBoundsError" <=>
                (~UnknownVariable /\ (StartUncovered \/ EndUncovered))
        /\ out.ok <=> (~UnknownVariable /\ ~StartUncovered /\ ~EndUncovered)
        /\ call.time_bounds = call.dataset.time_bounds =>
                out.error # "InvalidTimeBoundsError"
        /\ out.error = "InvalidTimeBoundsError" =>
            /\ Names(out.message, "could not cover the start of requested range")
                    <=> StartUncovered
            /\ Names(out.message, "could not cover the end of requested range")
                    <=> EndUncovered

\* an unknown variable together with both ends uncovered
C20_Witness ==
    /\ Returned("validate_download_request")
    /\ UnknownVariable /\ StartUncovered /\ EndUncovered
    /\ out.error = "InvalidVariableError"

---------------------------------------------------------------------------
\* C21: constructing TimeBounds(start, end) raises ValueError exactly when
\* end < start; equal start and end are accepted (the bounds are closed on
\* both sides).
C21_TimeBoundsConstruction ==
    Returned("TimeBounds") =>
        /\ (~out.ok) <=> (Minutes(call.end) < Minutes(call.start))
        /\ (~out.ok) => (out.error = "ValueError" /\ out.message = TimeBoundsMessage)
        /\ (Minutes(call.start) = Minutes(call.end)) => out.ok

\* a construction with start = end has succeeded
C21_Witness ==
    /\ Returned("TimeBounds")
    /\ call.start.unit # call.end.unit
    /\ Minutes(call.start) = Minutes(call.end)
    /\ out.ok

---------------------------------------------------------------------------
\* the properties read back from a folder are those written: the same four
\* bounds, the string forms of the two times, the same names
ReadsBack(folder, spatial_bounds, time_bounds, variable_names) ==
    LET res == read_properties_file(disk, folder)
    IN  /\ res.ok
        /\ res.properties[1] = spatial_bounds
        /\ res.properties[2] = TimeBounds(datetime64_str(time_bounds.start),
                                          datetime64_str(time_bounds.end))
        /\ res.properties[3] = variable_names

\* C22 (as stated): read_properties_file after write_properties_file returns
\* the written spatial bounds, the string forms of the written times and the
\* written names; after copy_properties_file the target folder reads back
\* what the source folder does.
C22_Original ==
    /\ Returned("write_properties_file") =>
            ReadsBack(call.folder, call.spatial_bounds, call.time_bounds,
                      call.variable_names)
    /\ (Returned("copy_properties_file") /\ out.ok) =>
            read_properties_file(disk, call.target_folder)
                = read_properties_file(disk, call.folder)

---------------------------------------------------------------------------
\* the calls the dispatcher made to the two regridders, in order
RegridderCalls ==
    SelectSeq(trace, LAMBDA e : e.fn \in {"_groupby_regrid", "_interp_regrid"})

\* the target resolution lies strictly between a quarter of and four times
\* the smaller of the two (positive) source resolutions
HybridCase(data, t) ==
    LET res == infer_resolution(data)
        s == Smaller(res[1], res[2])
    IN  /\ Positive(res[1]) /\ Positive(res[2])
        /\ RLt(s, RMul(R(4), t)) /\ RLt(t, RMul(R(4), s))

\* C23: on the hybrid path the dispatcher calls the interpolator once, with
\* the caller's grid and bounds and the resolution s/4 (s the smaller source
\* resolution), then the aggregator once, with the interpolated grid, the
\* caller's bounds and the target resolution; the aggregator does not get the
\* caller's grid, and its min_count is the one computed from the resolution
\* of the interpolated grid.
C23_HybridStages ==
    (Dispatched /\ HybridCase(call.data, call.resolution)) =>
        LET b == call.spatial_bounds
            t == call.resolution
            res == infer_resolution(call.data)
            fine == RDiv(Smaller(res[1], res[2]), R(4))
            refined == _interp_regrid(call.data, b, fine)
        IN  /\ refined.ok
            /\ RegridderCalls = <<Called("_interp_regrid", call.data, b, fine),
                                  Called("_groupby_regrid", refined.dataset, b, t)>>
            /\ refined.dataset # call.data
            /\ out.ok =>
                out.dataset = xarray_reduce(refined.dataset,
                                  groupby_bins(b.south, b.north, t),
                                  groupby_bins(b.west, b.east, t),
                                  groupby_min_points(refined.dataset, t))

\* a hybrid call has returned a grid with a cell that holds a value, and the
\* threshold computed from the caller's grid is another one
C23_Witness ==
    /\ Dispatched /\ HybridCase(call.data, call.resolution)
    /\ Len(RegridderCalls) = 2
    /\ out.ok
    /\ \E c \in Cells(out.dataset) : ~IsNaN(out.dataset.values[c])
    /\ groupby_min_points(RegridderCalls[2].data, call.resolution)
            # groupby_min_points(call.data, call.resolution)

---------------------------------------------------------------------------
\* C24 (as stated): the aggregator's threshold is floor(n * 0.90), with
\* n = (t / lat_res) * (t / lon_res) and the two resolutions inferred from
\* the grid the aggregator was given, and it is never negative.
C24_Original ==
    (Returned("_groupby_regrid") /\ groupby_min_points_error(call.data, call.resolution) = "") =>
        LET res == infer_resolution(call.data)
            n == RMul(RDiv(call.resolution, res[1]), RDiv(call.resolution, res[2]))
        IN  /\ MinCount = Floor(RMul(n, Rat(9, 10)))
            /\ MinCount >= 0

---------------------------------------------------------------------------
\* The bins of one axis partition [lo - r/2, hi + r/2): their number is
\* round((hi - lo) / r) + 1, they are contiguous and of one width, the first
\* starts at lo - r/2 and the last ends at hi + r/2.
BinsPartition(bins, lo, hi, r) ==
    LET half == RMul(Rat(1, 2), r)
    IN  /\ Len(bins) = Round(RDiv(RSub(hi, lo), r)) + 1
        /\ bins[1].left = RSub(lo, half)
        /\ bins[Len(bins)].right = RAdd(hi, half)
        /\ \A k \in 1..(Len(bins) - 1) : bins[k].right = bins[k + 1].left
        /\ \A k \in DOMAIN bins :
            /\ RLt(bins[k].left, bins[k].right)
            /\ RSub(bins[k].right, bins[k].left) = RSub(bins[1].right, bins[1].left)

\* Where the source coordinates go: one in [lo - r/2, hi + r/2) lies in
\* exactly one bin, on a shared edge in the upper one; any other lies in none.
BinsAssign(coords, bins, lo, hi, r) ==
    LET half == RMul(Rat(1, 2), r)
    IN  \A a \in DOMAIN coords :
            LET x == coords[a]
                holding == {k \in DOMAIN bins :
                                RLe(bins[k].left, x) /\ RLt(x, bins[k].right)}
            IN  /\ (RLe(RSub(lo, half), x) /\ RLt(x, RAdd(hi, half))) =>
                        /\ Cardinality(holding) = 1
                        /\ BinOf(x, bins) \in holding
                        /\ \A k \in 2..Len(bins) : x = bins[k].left => BinOf(x, bins) = k
                /\ (RLt(x, RSub(lo, half)) \/ RGe(x, RAdd(hi, half))) =>
                        /\ holding = {}
                        /\ BinOf(x, bins) = 0

\* the midpoint of bin k is the k-th target coordinate lo + (k - 1) * r
MidsOnTarget(bins, lo, r) ==
    \A k \in DOMAIN bins : Mid(bins[k]) = RAdd(lo, RMul(R(k - 1), r))

\* a source row or column that lies in no bin is among the contributors of
\* no output cell
OutsideContributesNothing ==
    LET b == call.spatial_bounds
        lat_bins == groupby_bins(b.south, b.north, call.resolution)
        lon_bins == groupby_bins(b.west, b.east, call.resolution)
    IN  \A c \in Cells(out.dataset) : \A m \in Contributors(c) :
            /\ \E k \in DOMAIN lat_bins : InBin(call.data.latitude[m[1]], lat_bins[k])
            /\ \E k \in DOMAIN lon_bins : InBin(call.data.longitude[m[2]], lon_bins[k])

AggregatorBins(with_mids) ==
    LET b == call.spatial_bounds
        r == call.resolution
        lat_bins == groupby_bins(b.south, b.north, r)
        lon_bins == groupby_bins(b.west, b.east, r)
    IN  /\ BinsPartition(lat_bins, b.south, b.north, r)
        /\ BinsPartition(lon_bins, b.west, b.east, r)
        /\ BinsAssign(call.data.latitude, lat_bins, b.south, b.north, r)
        /\ BinsAssign(call.data.longitude, lon_bins, b.west, b.east, r)
        /\ OutsideContributesNothing
        /\ Len(out.dataset.latitude) = Len(lat_bins)
        /\ Len(out.dataset.longitude) = Len(lon_bins)
        /\ with_mids => (MidsOnTarget(lat_bins, b.south, r) /\ MidsOnTarget(lon_bins, b.west, r))

\* C25 (as stated): the bins of each axis are round((hi - lo)/r) + 1
\* contiguous, equal-width, left-closed intervals covering exactly
\* [lo - r/2, hi + r/2); a source coordinate in that range lies in exactly one
\* bin (the upper one on a shared edge), any other in none and contributes to
\* no output cell; each bin's midpoint is a target coordinate.
C25_Original ==
    (Returned("_groupby_regrid") /\ out.ok) => AggregatorBins(TRUE)

\* C25 as amended: the same, the midpoints being the target coordinates
\* lo + k * r when north - south and east - west are integer multiples of
\* the resolution.
C25_BinsPartitionTheRange ==
    (Returned("_groupby_regrid") /\ out.ok) =>
        AggregatorBins(ExtentsAreMultiples(call.spatial_bounds, call.resolution))

\* a call with two bins per axis at least, a source latitude on a shared edge
\* and one at north + r/2, the extents being multiples of the resolution
C25_Witness ==
    /\ Returned("_groupby_regrid") /\ out.ok
    /\ ExtentsAreMultiples(call.spatial_bounds, call.resolution)
    /\ LET b == call.spatial_bounds
           lat_bins == groupby_bins(b.south, b.north, call.resolution)
       IN  /\ Len(lat_bins) >= 2
           /\ \E a \in DOMAIN call.data.latitude : call.data.latitude[a] = lat_bins[2].left
           /\ \E a \in DOMAIN call.data.latitude :
                call.data.latitude[a] = RAdd(b.north, RMul(Rat(1, 2), call.resolution))

---------------------------------------------------------------------------
\* the dispatcher ran the aggregator alone, on a grid with two positive
\* inferred resolutions
AggregationOfPositive ==
    /\ Dispatched /\ PureAggregation
    /\ Positive(infer_resolution(call.data)[1])
    /\ Positive(infer_resolution(call.data)[2])

\* the number of source cells per target cell the aggregator computed
SourceCellsPerTarget == groupby_n_points(RegridderCalls[1].data, call.resolution)

\* C26 (as stated): whenever the dispatcher picks pure aggregation, the
\* number n of source cells per target cell used by the aggregator is at
\* least 16, for every pair of positive axis resolutions.
C26_Original ==
    AggregationOfPositive => RGe(SourceCellsPerTarget, R(16))

\* C26 as amended: n is at least 16 when the two axis resolutions are equal;
\* in general n is at least 4 * t / max(lat_res, lon_res), and pure
\* aggregation is picked exactly when t >= 4 * min(lat_res, lon_res).
C26_CellsPerTarget ==
    LET res == infer_resolution(call.data)
        s == Smaller(res[1], res[2])
        l == IF s = res[1] THEN res[2] ELSE res[1]
        t == call.resolution
    IN  /\ AggregationOfPositive =>
            /\ RGe(t, RMul(R(4), s))
            /\ res[1] = res[2] => RGe(SourceCellsPerTarget, R(16))
            /\ RGe(SourceCellsPerTarget, RDiv(RMul(R(4), t), l))
        /\ (Dispatched /\ Positive(res[1]) /\ Positive(res[2])
                /\ RGe(t, RMul(R(4), s))) => PureAggregation

\* pure aggregation of a grid with equal axis resolutions at exactly four
\* times the source resolution: n = 16
C26_Witness ==
    /\ AggregationOfPositive
    /\ infer_resolution(call.data)[1] = infer_resolution(call.data)[2]
    /\ SourceCellsPerTarget = R(16)

---------------------------------------------------------------------------
\* the grid has no missing value and its extent covers the box
CoversBox(data, b) ==
    /\ \A c \in Cells(data) : ~IsNaN(data.values[c])
    /\ \E a \in DOMAIN data.latitude : RLe(data.latitude[a], b.south)
    /\ \E a \in DOMAIN data.latitude : RGe(data.latitude[a], b.north)
    /\ \E a \in DOMAIN data.longitude : RLe(data.longitude[a], b.west)
    /\ \E a \in DOMAIN data.longitude : RGe(data.longitude[a], b.east)

\* C27 (as stated): on the hybrid path, for a source grid without missing
\* values whose extent covers the box, every target cell, those centred on
\* the edges of the box included, gets at least min_count interpolated
\* sub-samples and holds a value in the output.
C27_Original ==
    (Returned("flox_regrid") /\ HybridCase(call.data, call.resolution)
        /\ CoversBox(call.data, call.spatial_bounds)) =>
        LET b == call.spatial_bounds
            t == call.resolution
            refined == RegridderCalls[2].data
        IN  /\ Len(RegridderCalls) = 2
            /\ out.ok
            /\ \A c \in Cells(out.dataset) :
                /\ Cardinality(GroupMembers(refined,
                                   groupby_bins(b.south, b.north, t),
                                   groupby_bins(b.west, b.east, t), c[1], c[2]))
                        >= groupby_min_points(refined, t)
                /\ ~IsNaN(out.dataset.values[c])

---------------------------------------------------------------------------
\* a run of a recipe is under way or has ended
Running == call.op = "run" /\ pc # "idle"

\* the statements of the second loop carried out so far
Processed ==
    SelectSeq(trace, LAMBDA e : e.fn \in {"download", "ingest", "load", "to_netcdf"})

\* the request of dataset k of the recipe passes the validation
Passes(k) ==
    /\ call.datasets[k].name \in DOMAIN DATASETS
    /\ validate_download_request(DATASETS[call.datasets[k].name], call.timebounds,
                                 call.datasets[k].variables).ok

\* C28: run validates the request of every dataset of the recipe before the
\* first download: once a download, ingest, load or write has happened, every
\* dataset has been validated, in the recipe's order and successfully, before
\* it; and if the validation of some dataset fails, nothing is ever
\* downloaded, ingested, loaded or written and run ends with the error of
\* the first dataset that fails.
C28_ValidateAllFirst ==
    Running =>
        LET n == Len(call.datasets)
            failing == {k \in 1..n : ~Passes(k)}
        IN  /\ Processed # << >> =>
                /\ failing = {}
                /\ Len(trace) > n
                /\ \A k \in 1..n :
                    trace[k] = Step("validate_download_request", call.datasets[k].name)
                /\ trace[n + 1].fn = "download"
            /\ failing # {} =>
                /\ Processed = << >>
                /\ pc \in {"validate", "returned"}
                /\ pc = "returned" =>
                    LET k == CHOOSE k \in failing : \A j \in failing : k <= j
                    IN  /\ ~out.ok
                        /\ Len(trace) = k - 1
                        /\ out = IF call.datasets[k].name \in DOMAIN DATASETS
                                 THEN validate_download_request(
                                          DATASETS[call.datasets[k].name],
                                          call.timebounds, call.datasets[k].variables)
                                 ELSE Raise("KeyError", <<call.datasets[k].name>>)

\* a run of two datasets has ended with a validation error of the second:
\* the first was validated and nothing was downloaded
C28_Witness ==
    /\ Running /\ pc = "returned"
    /\ Len(call.datasets) = 2
    /\ Passes(1) /\ ~Passes(2)
    /\ out.error \in {"InvalidVariableError", "InvalidTimeBoundsError"}
    /\ trace = <<Step("validate_download_request", call.datasets[1].name)>>

---------------------------------------------------------------------------
Converters == {"convert_to_zampy", "convert_tiff_to_netcdf", "convert_raw_dem_to_netcdf"}

\* the netCDF file in the ingest folder that belongs to the converted file
TargetOf(file) == <<"ingest", file[2], "nc">>

\* the paths other than p are on the disk as they were before the call
OthersUntouched(p) ==
    /\ DOMAIN disk \ {p} = DOMAIN call.before \ {p}
    /\ \A q \in DOMAIN disk \ {p} : disk[q] = call.before[q]

\* C29: a converter writes its target netCDF file exactly when the target
\* does not exist or overwrite is true; an existing target is left as it is
\* while overwrite is false (so a second ingest without overwrite rewrites
\* nothing), and with overwrite the target is written again from the file.
C29_ConverterOverwrite ==
    (pc = "returned" /\ call.op \in Converters) =>
        LET ncfile == TargetOf(call.file)
            written == trace = <<Step(call.op, ncfile)>>
        IN  /\ written <=> (ncfile \notin DOMAIN call.before \/ call.overwrite)
            /\ ~written => (trace = << >> /\ disk = call.before)
            /\ written => disk[ncfile] = [size |-> call.before[call.file].size,
                                          converted |-> TRUE]
            /\ ncfile \in DOMAIN disk
            /\ OthersUntouched(ncfile)

\* a converter was called without overwrite for a file that was downloaded
\* anew since its target was written: the target is left as it was
C29_Witness ==
    /\ pc = "returned" /\ call.op \in Converters
    /\ ~call.overwrite
    /\ TargetOf(call.file) \in DOMAIN call.before
    /\ trace = << >>
    /\ disk[TargetOf(call.file)].size # disk[call.file].size

---------------------------------------------------------------------------
\* the last download_url call fetched the URL
Fetched == trace = <<Step("urlretrieve", call.file)>>

\* C30 (as stated): download_url fetches the URL exactly when overwrite is
\* true or the size of the local file (0 when there is none) differs from
\* the remote Content-Length; a complete local file is skipped and left
\* untouched when overwrite is false, and a missing or partially downloaded
\* file is fetched again.
C30_Original ==
    Returned("download_url") =>
        LET exists == call.file \in DOMAIN call.before
            local == IF exists THEN call.before[call.file].size ELSE 0
        IN  /\ Fetched <=> (call.overwrite \/ local # call.url_size)
            /\ ~Fetched => (trace = << >> /\ disk = call.before)
            /\ (exists /\ local = call.url_size /\ ~call.overwrite) => ~Fetched
            /\ ~exists => Fetched
            /\ (exists /\ local < call.url_size) => Fetched

====
